---------------------------- MODULE Spec2Model ----------------------------
(***************************************************************************)
(* A model of the DAAP sharing engine of miro (src/tv/lib/sharing.py).     *)
(*                                                                         *)
(* The module holds several state machines over disjoint groups of         *)
(* variables, each with its own specification:                             *)
(*                                                                         *)
(*   SpecCatalog   SharingManagerBackend: the exported catalog, its        *)
(*                 revision counter and the ingest handlers.               *)
(*   SpecLongPoll  SharingManagerBackend.get_revision / watcher: the       *)
(*                 long-poll waiters on revision_cv, with the ingest       *)
(*                 handlers as the source of data bumps.                   *)
(*   SpecTracker   SharingTracker and Share: mDNS add/remove events, the   *)
(*                 test connect, the per-share database path.              *)
(*   SpecClient    SharingItemTrackerImpl: the client thread of one share, *)
(*                 its callbacks in the eventloop, the merge of the        *)
(*                 server's results into SharingItems and playlists.       *)
(*   SpecTranscode SharingManagerBackend.get_file, finished_callback and   *)
(*                 shutdown: the per-session transcode jobs.               *)
(*                                                                         *)
(* A specification leaves the variables of the other groups unchanged.     *)
(***************************************************************************)
EXTENDS Integers, Sequences, FiniteSets, TLC

(***************************************************************************)
(* Bounds of the model.                                                    *)
(***************************************************************************)
\* Item ids of the host library are 1..NumItems.
NumItems == 2
\* Playlist / feed ids of the host library are 1..NumPlaylists.
NumPlaylists == 1
\* The revision counter is unbounded in the code; handlers are modelled up to
\* this value.
MaxRevision == 4
\* A playlist's membership list is modelled up to this length.
MaxMembers == 2
\* DAAP sessions that long-poll are 1..NumSessions.
NumSessions == 2
\* Watcher threads alive at once for one session.
MaxWatchers == 2
\* DAAP item ids of the remote share are 1..NumClientItems.
NumClientItems == 2
\* DAAP playlist ids of the remote share are 1..NumClientPlaylists.
NumClientPlaylists == 1
\* The items that remote playlists hold are 1..NumPlaylistMembers.
NumPlaylistMembers == 1
\* Ids in one deleted_items or deleted_playlists list.
MaxDeleted == 2
\* Callbacks of the tracker's thread waiting in the eventloop.
MaxIdle == 1
\* (host, port) pairs on the network are 1..NumEndpoints.
NumEndpoints == 2
\* uuid.uuid4() calls, one per Share constructed, are modelled up to this
\* number.
MaxUuid == 3
\* Server threads that run get_file() at once are 1..NumThreads.
NumThreads == 2
\* DAAP sessions that stream files are 1..NumStreams.
NumStreams == 1
\* TranscodeObjects constructed in one run are modelled up to this number.
MaxJobs == 2
\* The generation argument of get_file is in 1..MaxGeneration.
MaxGeneration == 2
\* The chunk argument of get_file is None or in 0..MaxChunk.
MaxChunk == 1
\* Commands in the socket pair of the mDNS browser thread.
MaxCmds == 3
\* 'changed' signals of the config watcher waiting for the backend thread.
MaxChanged == 2
\* call_on_ui_thread() calls waiting for the UI thread.
MaxUiCalls == 2
\* Database files left in the support directory by a previous run: slots
\* 0..NumStale-1 may hold one.
NumStale == 1

\* The number of candidate paths find_unused_db probes.
NumDbSlots == 300

Items == 1..NumItems
\* Playlist and session ids are strings, so that they compare with None.
Playlists == {"p" \o ToString(i) : i \in 1..NumPlaylists}
Sessions == {"s" \o ToString(i) : i \in 1..NumSessions}

\* Playlist ids that are feeds (typ = 'feed'); the others are saved playlists.
Feeds == {"p" \o ToString(i) : i \in {j \in 1..NumPlaylists : j % 2 = 0}}

\* The value of an attribute or argument that is None.
None == "None"
\* self.directed before the first update_revision(): the attribute is not set.
Unset == "Unset"

(***************************************************************************)
(* Helpers for Python dicts (functions with a finite domain) and lists.    *)
(***************************************************************************)
EmptyDict == [x \in {} |-> None]

\* d[k] = v
Put(d, k, v) == [x \in DOMAIN d \cup {k} |-> IF x = k THEN v ELSE d[x]]

\* del d[k]
Del(d, k) == [x \in DOMAIN d \ {k} |-> d[x]]

RECURSIVE SetToSeq(_)
\* A list holding the ids of S, each once, in ascending order.
SetToSeq(S) ==
    IF S = {} THEN <<>>
    ELSE LET m == CHOOSE x \in S : \A y \in S : x <= y
         IN  <<m>> \o SetToSeq(S \ {m})

Range(s) == {s[i] : i \in DOMAIN s}

RECURSIVE ListRemove(_, _)
\* list.remove(x): the list without its first occurrence of x (the caller
\* makes sure x is in the list, or catches the ValueError and keeps the list).
ListRemove(s, x) ==
    IF s = <<>> THEN <<>>
    ELSE IF Head(s) = x THEN Tail(s)
    ELSE <<Head(s)>> \o ListRemove(Tail(s), x)

RECURSIVE ListRemoveAll(_, _)
\* for x in xs: try: s.remove(x) except ValueError: pass
ListRemoveAll(s, xs) ==
    IF xs = <<>> THEN s
    ELSE ListRemoveAll(ListRemove(s, Head(xs)), Tail(xs))

(***************************************************************************)
(* State.                                                                  *)
(***************************************************************************)
VARIABLES
    \* ---- SharingManagerBackend (the exported catalog) ----
    revision,           \* self.revision
    directed,           \* self.directed
    config,             \* app.config: SHARE_AUDIO, SHARE_VIDEO, SHARE_FEED
    share_types,        \* self.share_types, a list
    daapitems,          \* self.daapitems: item id -> record
    daap_playlists,     \* self.daap_playlists: playlist id -> record
    playlist_item_map,  \* self.playlist_item_map: playlist id -> list of ids
    deleted_item_map,   \* self.deleted_item_map: playlist id -> list of ids
    started,            \* start_tracking() has run (callbacks are connected)
    \* history of the catalog, read by the properties only
    max_valid_rev,      \* item id -> highest revision a valid record of it had
    data_rev,           \* revision set by the last update_revision(None)
    types_rev,          \* revision set when share_types last changed
    \* ---- get_revision() callers and their watcher threads ----
    pc,                 \* session -> "idle" | "waiting" | "notified" | "done"
    arg_revision,       \* session -> old_revision as passed by the caller
    old_revision,       \* session -> the local old_revision
    result,             \* session -> the value get_revision returned
    watchers,           \* session -> watcher threads blocked in select()
    request_ready,      \* session -> the request socket is readable
    \* ---- SharingTracker and the Share objects it owns ----
    name_to_id_map,     \* self.name_to_id_map: fullname -> share id
    shares,             \* self.shares: share id -> Share
    available_shares,   \* self.available_shares: share id -> SharingInfo
    trackers,           \* self.trackers
    used_db_paths,      \* Share._used_db_paths, as slot numbers
    db_files,           \* the sharing-db-<i> files in the support directory
    testconnects,       \* 'DAAP test connect' calls that have not called back
    next_uuid,          \* the number of uuid.uuid4() calls so far
    frontend,           \* the messages the last step sent to the frontend
    \* ---- the SharingItemTrackerImpl of one share ----
    client,             \* self.client
    thread_pc,          \* the tracker's thread: "none" (no tracker yet),
                        \* "connect", "fetch", "update", "exit"
    idle_calls,         \* callbacks handed to the eventloop, oldest first
    current_item_ids,   \* self.current_item_ids
    current_playlist_ids, \* self.current_playlist_ids
    playlist_data,      \* self.playlist_tracker.playlist_data
    playlist_items,     \* self.playlist_tracker.playlist_items
    sharing_items,      \* daap ids of the SharingItems in the share's database
    client_playlist_item_map, \* self.playlist_item_map, the playlist ids
    fake_playlists,     \* self.playlist_item_map, u'podcast' and u'playlist'
    raised,             \* the exception that ended the last callback
    \* history of the tracker, read by the properties only
    asserted,           \* playlist id -> membership the server has reported
    received,           \* item ids the server has reported and not deleted
    merged,             \* items and deleted_items of the last result merged
    disconnected,       \* client_disconnect() has stored None in self.client
    playlist_tabs,      \* the playlists of the share in the frontend's sidebar
    \* ---- SharingManagerBackend, transcoding ----
    transcode,          \* self.transcode: session -> TranscodeObject
    jobs,               \* the TranscodeObjects made so far
    in_shutdown,        \* self.in_shutdown
    calls,              \* the get_file() and shutdown() calls in progress
    transcode_lock,     \* who holds self.transcode_lock across steps
    shutdown_keys,      \* shutdown(): the keys its loop has still to visit
    shutdown_raised,    \* what shutdown() raised
    \* ---- SharingManager, the sharing on/off toggle ----
    sharing_frontend_volatile, \* self.sharing_frontend_volatile
    share_media,        \* app.config.get(prefs.SHARE_MEDIA)
    sharing,            \* self.sharing
    changed_queue,      \* 'changed' signals of the config watcher not yet
                        \* delivered to on_config_changed
    twiddle,            \* the twiddle_sharing() call in progress
    ui_queue,           \* call_on_ui_thread(func) calls not yet run
    toggle_widget,      \* the frontend's on/off widget, as the start and
                        \* end callbacks leave it
    sharing_set_enable_ret, \* what the last sharing_set_enable returned
    share_discoverable, \* app.config.get(prefs.SHARE_DISCOVERABLE)
    share_name,         \* app.config.get(prefs.SHARE_NAME)
    discoverable,       \* self.discoverable
    manager_name,       \* self.name of the SharingManager
    server_name,        \* the name self.server.set_name() has stored
    mdns_callback,      \* self.mdns_callback
    manager_pipe,       \* the commands sent on self.w and not yet received
    reload_done_event,  \* self.reload_done_event is set
    manager_thread,     \* where SharingManager.server_thread is
    tracker_paused,     \* app.sharing_tracker: pause() came after resume()
    reconf,             \* the twiddle_sharing() call in progress, by
                        \* statement
    \* ---- SharingTracker, the mDNS browser thread ----
    paused,             \* self.paused
    cmd_pipe,           \* commands sent on self.w and not yet read from self.r
    server_thread_pc,   \* where server_thread() is
    callback,           \* the local "callback" of server_thread()
    event,              \* self.event is set
    pause_pc,           \* where the SharingManager is around pause()
    browse_ready,       \* the mDNS browse socket is readable
    \* history of the browser thread, read by the properties only
    pause_processed,    \* the thread has read the PAUSE of the last pause()
    quit_sent,          \* stop_tracking() has sent CMD_QUIT
    \* ---- SharingManagerBackend, the readers of the catalog ----
    item_kinds,         \* item id -> the mediakind and itemkind that
                        \* make_item_dict stores for the library's item
    items_returned,     \* what the last get_items() returned, empty before
    \* ---- one item on its way from a library to a SharingItem ----
    local_item,         \* the attributes of the item of the library
    itemprop,           \* the record make_item_dict stores for it
    item_data,          \* what convert_raw_sharing_item makes of the record
    convert_pc,         \* "local", "exported" or "imported"
    \* ---- SharingItemTrackerImpl.runloop, its rounds numbered ----
    runloop_pc,         \* where the tracker's thread is in runloop
    rpc_round,          \* the number of the round issued last
    idle_queue,         \* the eventloop's idle calls, oldest first
    callbacks_run       \* the rounds whose callback has run, in order

catalogVars == <<revision, directed, config, share_types, daapitems,
                 daap_playlists, playlist_item_map, deleted_item_map, started,
                 max_valid_rev, data_rev, types_rev>>
pollVars == <<pc, arg_revision, old_revision, result, watchers,
              request_ready>>
\* The variables of the get_revision callers that update_revision leaves alone.
pollRest == <<arg_revision, old_revision, result, watchers,
              request_ready>>
trackerVars == <<name_to_id_map, shares, available_shares, trackers,
                 used_db_paths, db_files, testconnects, next_uuid, frontend>>
clientVars == <<client, thread_pc, idle_calls, current_item_ids,
                current_playlist_ids, playlist_data, playlist_items,
                sharing_items, client_playlist_item_map, fake_playlists,
                raised, asserted, received, merged, disconnected,
                playlist_tabs>>
\* transcode_lock and shutdown() step by step under it.
lockVars == <<transcode_lock, shutdown_keys, shutdown_raised>>
transcodeVars == <<transcode, jobs, in_shutdown, calls, lockVars>>
\* SharingManager: twiddle_sharing() statement by statement and the server
\* thread.
reconfVars == <<share_discoverable, share_name, discoverable, manager_name,
                server_name, mdns_callback, manager_pipe, reload_done_event,
                manager_thread, tracker_paused, reconf>>
\* SharingManager: the on/off toggle of the frontend.
managerVars == <<sharing_frontend_volatile, share_media, sharing,
                 changed_queue, twiddle, ui_queue, toggle_widget,
                 sharing_set_enable_ret, reconfVars>>
\* The variables of the machines after the transcode jobs.
\* SharingTracker: the mDNS browser thread and pause() / resume().
discoveryVars == <<paused, cmd_pipe, server_thread_pc, callback, event,
                   pause_pc, browse_ready, pause_processed, quit_sent>>
\* SharingManagerBackend: get_items().
readerVars == <<item_kinds, items_returned>>
\* make_item_dict() and convert_raw_sharing_item() on one item.
convertVars == <<local_item, itemprop, item_data, convert_pc>>
\* The rounds of runloop and their callbacks.
runloopVars == <<runloop_pc, rpc_round, idle_queue, callbacks_run>>
otherVars == <<managerVars, discoveryVars, readerVars, convertVars,
               runloopVars>>
vars == <<catalogVars, pollVars, trackerVars, clientVars, transcodeVars,
          otherVars>>


(***************************************************************************)
(* SharingManagerBackend: records and the revision counter.                *)
(***************************************************************************)
SHARE_AUDIO == "SHARE_AUDIO"
SHARE_VIDEO == "SHARE_VIDEO"
SHARE_FEED == "SHARE_FEED"
\* The config keys on_config_changed reacts to.
ShareKeys == {SHARE_AUDIO, SHARE_VIDEO, SHARE_FEED}
\* A config key it ignores.
OtherKeys == {"SHARE_NAME"}

\* The share_types list as __init__ and on_config_changed build it from the
\* config: the enabled kinds, always in the order audio, video, feed.
ShareTypesOf(cfg) ==
    (IF cfg[SHARE_AUDIO] THEN <<SHARE_AUDIO>> ELSE <<>>)
    \o (IF cfg[SHARE_VIDEO] THEN <<SHARE_VIDEO>> ELSE <<>>)
    \o (IF cfg[SHARE_FEED] THEN <<SHARE_FEED>> ELSE <<>>)

\* Mutant of deleted_item: the tombstone carries the revision from before
\* the handler's bump.
deleted_item_prebump(rev) == [revision |-> rev - 1, valid |-> FALSE]

\* Mutant of deleted_item: the tombstone carries no revision of its own.
deleted_item_unstamped(rev) == [revision |-> 0, valid |-> FALSE]

\* dict(revision=self.revision, valid=False)
deleted_item(rev) == [revision |-> rev, valid |-> FALSE]

\* The record make_item_dict stores for an item: stamped with self.revision
\* and valid.
ItemRecord(rev) == [revision |-> rev, valid |-> TRUE]

\* The record make_daap_playlists stores for a playlist (typ 'playlist') or a
\* feed (typ 'feed').
PlaylistRecord(rev, typ) ==
    [revision |-> rev, valid |-> TRUE, podcast |-> (typ = "feed")]

\* make_item_dict(items): every item of the message gets a fresh record.
make_item_dict(items, ids, rev) ==
    [i \in DOMAIN items \cup ids |->
        IF i \in ids THEN ItemRecord(rev) ELSE items[i]]

\* make_daap_playlists(items, typ)
make_daap_playlists(playlists, ids, typ, rev) ==
    [p \in DOMAIN playlists \cup ids |->
        IF p \in ids THEN PlaylistRecord(rev, typ) ELSE playlists[p]]

\* Mutant of Stamp: tombstones are skipped.
Stamp_valid_only(d, ks, rev) ==
    [k \in DOMAIN d |->
        IF k \in ks /\ d[k].valid THEN [d[k] EXCEPT !.revision = rev]
        ELSE d[k]]

\* d[k]['revision'] = rev for every k of ks that d holds (a missing key is
\* the KeyError the callers catch and ignore).
Stamp(d, ks, rev) ==
    [k \in DOMAIN d |-> IF k \in ks THEN [d[k] EXCEPT !.revision = rev]
                        ELSE d[k]]

\* revision_cv.notify_all(): every thread blocked in wait() is woken; it
\* still has to take item_lock again before it runs.
notify_all(p) ==
    [s \in Sessions |-> IF p[s] = "waiting" THEN "notified" ELSE p[s]]

\* Mutant of update_revision: a directed wake-up notifies without
\* incrementing the counter.
update_revision_skips_directed(d) ==
    /\ revision' = IF d = None THEN revision + 1 ELSE revision
    /\ directed' = d
    /\ pc' = notify_all(pc)
    /\ data_rev' = IF d = None THEN revision + 1 ELSE data_rev

\* update_revision(directed), called with item_lock held.
update_revision(d) ==
    /\ revision' = revision + 1
    /\ directed' = d
    /\ pc' = notify_all(pc)
    /\ data_rev' = IF d = None THEN revision + 1 ELSE data_rev

\* The history variable max_valid_rev follows the item records.
TrackValid ==
    max_valid_rev' =
        [i \in Items |->
            IF i \in DOMAIN daapitems' /\ daapitems'[i].valid
               /\ daapitems'[i].revision > max_valid_rev[i]
            THEN daapitems'[i].revision ELSE max_valid_rev[i]]

\* The playlists whose item callbacks are registered: handle_playlist_added
\* and start_tracking register them together with the membership entry, and
\* handle_playlist_removed removes both.
Tracked == DOMAIN playlist_item_map \cap DOMAIN daap_playlists

(***************************************************************************)
(* SharingManagerBackend: the ingest handlers.  Each runs its whole body   *)
(* inside "with self.item_lock", so each is one step.                      *)
(***************************************************************************)
\* Mutant of handle_item_list: the items absent from a full list are kept.
handle_item_list_keeps_absent(id, ids) ==
    /\ started
    /\ revision < MaxRevision
    /\ update_revision(None)
    /\ IF id # None
       THEN /\ id \in Tracked
            /\ Cardinality(ids) <= MaxMembers
            /\ daap_playlists' = Stamp(daap_playlists, {id}, revision')
            /\ playlist_item_map' = Put(playlist_item_map, id, SetToSeq(ids))
            /\ deleted_item_map' = Put(deleted_item_map, id, <<>>)
            /\ daapitems' = Stamp(daapitems, ids, revision')
       ELSE /\ LET deleted == {i \in DOMAIN daapitems : i \notin ids}
                   made == make_item_dict(daapitems, ids, revision')
               IN  daapitems' = made
            /\ UNCHANGED <<daap_playlists, playlist_item_map,
                           deleted_item_map>>
    /\ UNCHANGED <<config, share_types, started>>
    /\ UNCHANGED <<pollRest, types_rev, trackerVars, clientVars,
                   transcodeVars, otherVars>>
    /\ TrackValid

\* handle_item_list(message) with message.id = id, message.items = ids.
handle_item_list(id, ids) ==
    /\ started
    /\ revision < MaxRevision
    /\ update_revision(None)
    /\ IF id # None
       THEN /\ id \in Tracked
            /\ Cardinality(ids) <= MaxMembers
            /\ daap_playlists' = Stamp(daap_playlists, {id}, revision')
            /\ playlist_item_map' = Put(playlist_item_map, id, SetToSeq(ids))
            /\ deleted_item_map' = Put(deleted_item_map, id, <<>>)
            /\ daapitems' = Stamp(daapitems, ids, revision')
       ELSE /\ LET deleted == {i \in DOMAIN daapitems : i \notin ids}
                   made == make_item_dict(daapitems, ids, revision')
               IN  daapitems' =
                       [i \in DOMAIN made |->
                           IF i \in deleted THEN deleted_item(revision')
                           ELSE made[i]]
            /\ UNCHANGED <<daap_playlists, playlist_item_map,
                           deleted_item_map>>
    /\ UNCHANGED <<config, share_types, started>>
    /\ UNCHANGED <<pollRest, types_rev, trackerVars, clientVars,
                   transcodeVars, otherVars>>
    /\ TrackValid

\* handle_items_changed(message) with message.id = id and the ids of
\* message.added, message.changed and message.removed.
handle_items_changed(id, added, changed, removed) ==
    /\ started
    /\ revision < MaxRevision
    /\ update_revision(None)
    /\ IF id # None
       THEN /\ id \in Tracked
            /\ id \in DOMAIN deleted_item_map
            /\ removed \subseteq Range(playlist_item_map[id])
            /\ LET rem == SetToSeq(removed)
                   add == SetToSeq(added)
                   members == ListRemoveAll(playlist_item_map[id], rem) \o add
                   gone == ListRemoveAll(deleted_item_map[id] \o rem, add)
               IN  /\ Len(members) <= MaxMembers
                   /\ Len(gone) <= MaxMembers
                   /\ playlist_item_map' =
                          [playlist_item_map EXCEPT ![id] = members]
                   /\ deleted_item_map' =
                          [deleted_item_map EXCEPT ![id] = gone]
            /\ daap_playlists' = Stamp(daap_playlists, {id}, revision')
            /\ daapitems' = Stamp(daapitems, added \cup changed, revision')
       ELSE /\ LET tombs == [i \in DOMAIN daapitems \cup removed |->
                               IF i \in removed THEN deleted_item(revision')
                               ELSE daapitems[i]]
               IN  daapitems' = make_item_dict(
                       make_item_dict(tombs, added, revision'),
                       changed, revision')
            /\ UNCHANGED <<daap_playlists, playlist_item_map,
                           deleted_item_map>>
    /\ UNCHANGED <<config, share_types, started>>
    /\ UNCHANGED <<pollRest, types_rev, trackerVars, clientVars,
                   transcodeVars, otherVars>>
    /\ TrackValid

\* handle_playlist_added / handle_feed_added: _handle_playlist_added with the
\* non-folder playlists ids of kind typ.
handle_playlist_added(ids, typ) ==
    /\ started
    /\ revision < MaxRevision
    /\ ids \cap DOMAIN daap_playlists = {}
    /\ update_revision(None)
    /\ daap_playlists' = make_daap_playlists(daap_playlists, ids, typ,
                                             revision')
    /\ playlist_item_map' =
           [p \in DOMAIN playlist_item_map \cup ids |->
               IF p \in ids THEN <<>> ELSE playlist_item_map[p]]
    /\ deleted_item_map' =
           [p \in DOMAIN deleted_item_map \cup ids |->
               IF p \in ids THEN <<>> ELSE deleted_item_map[p]]
    /\ UNCHANGED <<daapitems, config, share_types, started>>
    /\ UNCHANGED <<pollRest, types_rev, trackerVars, clientVars,
                   transcodeVars, otherVars>>
    /\ TrackValid

\* handle_playlist_changed / handle_feed_changed: _handle_playlist_changed.
\* An id the catalog does not hold is a folder and is skipped.
handle_playlist_changed(ids, typ) ==
    /\ started
    /\ revision < MaxRevision
    /\ update_revision(None)
    /\ daap_playlists' =
           make_daap_playlists(daap_playlists, ids \cap DOMAIN daap_playlists,
                               typ, revision')
    /\ UNCHANGED <<daapitems, playlist_item_map, deleted_item_map, config,
                   share_types, started>>
    /\ UNCHANGED <<pollRest, types_rev, trackerVars, clientVars,
                   transcodeVars, otherVars>>
    /\ TrackValid

\* handle_playlist_removed / handle_feed_removed: _handle_playlist_removed.
handle_playlist_removed(ids) ==
    /\ started
    /\ revision < MaxRevision
    /\ update_revision(None)
    /\ LET known == ids \cap DOMAIN daap_playlists
       IN  /\ daap_playlists' =
                  [p \in DOMAIN daap_playlists |->
                      IF p \in known THEN deleted_item(revision')
                      ELSE daap_playlists[p]]
           /\ playlist_item_map' =
                  [p \in DOMAIN playlist_item_map \ known |->
                      playlist_item_map[p]]
           /\ deleted_item_map' =
                  [p \in DOMAIN deleted_item_map \ known |->
                      deleted_item_map[p]]
    /\ UNCHANGED <<daapitems, config, share_types, started>>
    /\ UNCHANGED <<pollRest, types_rev, trackerVars, clientVars,
                   transcodeVars, otherVars>>
    /\ TrackValid

\* start_tracking(): populate_playlists() with the saved playlists and the
\* non-ersatz feeds ids of the database, whose memberships are members[p];
\* then the callbacks are connected.
populate_playlists(ids, members) ==
    /\ ~started
    /\ revision < MaxRevision
    /\ update_revision(None)
    /\ daap_playlists' =
           make_daap_playlists(
               make_daap_playlists(daap_playlists, ids \ Feeds, "playlist",
                                   revision'),
               ids \cap Feeds, "feed", revision')
    /\ playlist_item_map' =
           [p \in DOMAIN playlist_item_map \cup ids |->
               IF p \in ids THEN members[p] ELSE playlist_item_map[p]]
    /\ deleted_item_map' =
           [p \in DOMAIN deleted_item_map \cup ids |->
               IF p \in ids THEN <<>> ELSE deleted_item_map[p]]
    /\ started' = TRUE
    /\ UNCHANGED <<daapitems, config, share_types>>
    /\ UNCHANGED <<pollRest, types_rev, trackerVars, clientVars,
                   transcodeVars, otherVars>>
    /\ TrackValid

\* on_config_changed(obj, key, value), run when app.config[key] is set.
on_config_changed(key, value) ==
    IF key \in ShareKeys
    THEN /\ config' = [config EXCEPT ![key] = value]
         /\ share_types' = ShareTypesOf(config')
         /\ IF share_types # share_types'
            THEN /\ revision < MaxRevision
                 /\ update_revision(None)
            ELSE UNCHANGED <<revision, directed, pc, data_rev>>
         /\ daap_playlists' =
                Stamp(daap_playlists, DOMAIN daap_playlists, revision')
         /\ daapitems' = Stamp(daapitems, DOMAIN daapitems, revision')
         /\ types_rev' = IF share_types # share_types' THEN revision'
                         ELSE types_rev
         /\ UNCHANGED <<playlist_item_map, deleted_item_map, started>>
         /\ UNCHANGED <<pollRest, trackerVars, clientVars, transcodeVars,
                        otherVars>>
         /\ TrackValid
    ELSE UNCHANGED vars


(***************************************************************************)
(* get_revision() and its watcher threads.  A caller holds item_lock from  *)
(* revision_cv.acquire() to wait(), and from the return of wait() to the   *)
(* next wait() or to release(); each such stretch is one step.             *)
(***************************************************************************)
\* get_revision(session, old_revision, request), up to the first wait() or
\* to the return when the revision already differs.  The locals of a call
\* that has returned are gone (0).
get_revision(s, n) ==
    /\ pc[s] \in {"idle", "done"}
    /\ IF revision = n
       THEN /\ watchers[s] < MaxWatchers
            /\ watchers' = [watchers EXCEPT ![s] = @ + 1]
            /\ pc' = [pc EXCEPT ![s] = "waiting"]
            /\ arg_revision' = [arg_revision EXCEPT ![s] = n]
            /\ old_revision' = [old_revision EXCEPT ![s] = n]
            /\ result' = [result EXCEPT ![s] = 0]
       ELSE /\ pc' = [pc EXCEPT ![s] = "done"]
            /\ result' = [result EXCEPT ![s] = revision]
            /\ arg_revision' = [arg_revision EXCEPT ![s] = 0]
            /\ old_revision' = [old_revision EXCEPT ![s] = 0]
            /\ UNCHANGED watchers
    /\ UNCHANGED <<trackerVars, clientVars, transcodeVars, otherVars>>
    /\ UNCHANGED <<revision, directed, config, share_types, daapitems,
                   daap_playlists, playlist_item_map, deleted_item_map,
                   started, max_valid_rev, data_rev, types_rev, request_ready>>

\* Mutant of get_revision_wakeup: only directed = None ends the wait.
get_revision_wakeup_data_only(s) ==
    /\ pc[s] = "notified"
    /\ IF directed = None
       THEN /\ pc' = [pc EXCEPT ![s] = "done"]
            /\ result' = [result EXCEPT ![s] = revision]
            /\ arg_revision' = [arg_revision EXCEPT ![s] = 0]
            /\ old_revision' = [old_revision EXCEPT ![s] = 0]
            /\ UNCHANGED watchers
       ELSE /\ old_revision' = [old_revision EXCEPT ![s] = revision]
            /\ watchers[s] < MaxWatchers
            /\ watchers' = [watchers EXCEPT ![s] = @ + 1]
            /\ pc' = [pc EXCEPT ![s] = "waiting"]
            /\ UNCHANGED <<result, arg_revision>>
    /\ UNCHANGED <<trackerVars, clientVars, transcodeVars, otherVars>>
    /\ UNCHANGED <<revision, directed, config, share_types, daapitems,
                   daap_playlists, playlist_item_map, deleted_item_map,
                   started, max_valid_rev, data_rev, types_rev, request_ready>>

\* get_revision() from the return of revision_cv.wait(), which has taken
\* item_lock again, to the return of get_revision or to the next wait().
get_revision_wakeup(s) ==
    /\ pc[s] = "notified"
    /\ IF directed = None \/ directed = s
       THEN /\ pc' = [pc EXCEPT ![s] = "done"]
            /\ result' = [result EXCEPT ![s] = revision]
            /\ arg_revision' = [arg_revision EXCEPT ![s] = 0]
            /\ old_revision' = [old_revision EXCEPT ![s] = 0]
            /\ UNCHANGED watchers
       ELSE /\ old_revision' = [old_revision EXCEPT ![s] = revision]
            /\ watchers[s] < MaxWatchers
            /\ watchers' = [watchers EXCEPT ![s] = @ + 1]
            /\ pc' = [pc EXCEPT ![s] = "waiting"]
            /\ UNCHANGED <<result, arg_revision>>
    /\ UNCHANGED <<trackerVars, clientVars, transcodeVars, otherVars>>
    /\ UNCHANGED <<revision, directed, config, share_types, daapitems,
                   daap_playlists, playlist_item_map, deleted_item_map,
                   started, max_valid_rev, data_rev, types_rev, request_ready>>

\* The request socket of session s becomes readable (the client closed the
\* connection or sent data); it stays readable, nothing reads it.
request_readable(s) ==
    /\ watchers[s] > 0
    /\ ~request_ready[s]
    /\ request_ready' = [request_ready EXCEPT ![s] = TRUE]
    /\ UNCHANGED <<trackerVars, clientVars, transcodeVars, otherVars>>
    /\ UNCHANGED <<catalogVars, pc, arg_revision, old_revision, result,
                   watchers>>

\* watcher(session, request): select() returned; the thread takes item_lock,
\* bumps the revision directed at its session and ends.
watcher(s) ==
    /\ watchers[s] > 0
    /\ request_ready[s]
    /\ revision < MaxRevision
    /\ update_revision(s)
    /\ watchers' = [watchers EXCEPT ![s] = @ - 1]
    /\ UNCHANGED <<trackerVars, clientVars, transcodeVars, otherVars>>
    /\ UNCHANGED <<config, share_types, daapitems, daap_playlists,
                   playlist_item_map, deleted_item_map, started,
                   max_valid_rev, types_rev, arg_revision, old_revision,
                   result, request_ready>>

(***************************************************************************)
(* Share: the per-share database path.                                     *)
(***************************************************************************)
\* (host, port) pairs that publish a share.
Endpoints == 1..NumEndpoints

\* app.sharing_manager.name, the name this program publishes its own share as.
ServerName == "Me"
\* The service names mDNS reports.
FullNames == {"A", "B", ServerName}

\* hash((host, port)): any integer, of either sign.
hash(endpoint) == IF endpoint % 2 = 1 THEN -endpoint ELSE endpoint

\* abs()
Abs(n) == IF n < 0 THEN -n ELSE n

\* The share ids the endpoints are given.
ShareIds == {Abs(hash(e)) : e \in Endpoints}

\* The slots i whose file sharing-db-<i> a previous run may have left behind.
StaleSlots == 0..(NumStale - 1)

\* The result of find_unused_db when it raises AssertionError.
AssertionError == -1

\* find_unused_db passes over candidate i: the path is in use, or its file
\* is there and os.remove() cannot remove it (failing holds those slots).
skipped(i, failing) ==
    i \in used_db_paths \/ (i \in db_files /\ i \in failing)

\* The loop of find_unused_db from candidate i on: the first candidate that
\* is not passed over.
probe(i, failing) ==
    IF \A j \in i..(NumDbSlots - 1) : skipped(j, failing)
    THEN AssertionError
    ELSE CHOOSE j \in i..(NumDbSlots - 1) :
             /\ ~skipped(j, failing)
             /\ \A k \in i..(j - 1) : skipped(k, failing)

\* Mutant of find_unused_db: the in-use set is not consulted.
RECURSIVE probe_ignoring_used(_, _)
probe_ignoring_used(i, failing) ==
    IF i >= NumDbSlots THEN AssertionError
    ELSE IF i \in db_files /\ i \in failing
    THEN probe_ignoring_used(i + 1, failing)
    ELSE i

find_unused_db_ignoring_used(failing) == probe_ignoring_used(0, failing)

\* Share.find_unused_db(): the first slot that is not in use and whose stale
\* file, if any, could be removed.
find_unused_db(failing) == probe(0, failing)

\* Share.__init__, the attributes; the path is added to _used_db_paths and the
\* database file is created by the step that constructs the Share.
Share(share_id, name, endpoint, db_path) ==
    [id |-> share_id, name |-> name, endpoint |-> endpoint,
     db_path |-> db_path, tracker |-> None]

\* messages.SharingInfo(share)
SharingInfo(share) ==
    [share_id |-> share.id, name |-> share.name, endpoint |-> share.endpoint,
     mount |-> FALSE, is_updating |-> FALSE, share_available |-> FALSE,
     connect_uuid |-> None, stale_callback |-> None]

\* uuid.uuid4(): a value no earlier call returned.
uuid4 == "u" \o ToString(next_uuid + 1)

\* Messages to the frontend.
TabsChanged(added, changed, removed) ==
    [msg |-> "TabsChanged", added |-> added, changed |-> changed,
     removed |-> removed]
SharingDisappeared(info) == [msg |-> "SharingDisappeared", share |-> info]
SharingConnectFailed(share_id) ==
    [msg |-> "SharingConnectFailed", share |-> share_id]

(***************************************************************************)
(* SharingTracker.                                                         *)
(***************************************************************************)
\* The values of a dict.
Values(d) == {d[k] : k \in DOMAIN d}

\* SharingTracker.destroy_share(share_id): Share.destroy() closes the
\* database and deletes its file; _used_db_paths is not written.
destroy_share(share_id) ==
    /\ db_files' = db_files \ {shares[share_id].db_path}
    /\ shares' = Del(shares, share_id)
    /\ UNCHANGED used_db_paths

\* try_to_add(): the test connect is handed to a thread.
try_to_add(share_id, uuid) ==
    testconnects' = testconnects \cup {[share_id |-> share_id, uuid |-> uuid]}

\* Mutant of rename_connected: the name is left as it was.
rename_connected_keeps_name(info, fullname) ==
    [info EXCEPT !.stale_callback = None]

\* mdns_callback_backend, has_key branch: the connected share is renamed and
\* its stale callback cancelled.
rename_connected(info, fullname) ==
    [info EXCEPT !.stale_callback = None, !.name = fullname]

\* mdns_callback_backend(added=True, ...) past the own-name test.
mdns_added(fullname, endpoint) ==
    LET share_id == Abs(hash(endpoint))
        has_key == {k \in DOMAIN available_shares :
                       /\ available_shares[k].mount
                       /\ available_shares[k].endpoint = endpoint}
    IN
    /\ name_to_id_map' = Put(name_to_id_map, fullname, share_id)
    /\ IF has_key # {}
       THEN LET k == CHOOSE k \in has_key : TRUE IN
            /\ available_shares' = [available_shares EXCEPT
                   ![k] = rename_connected(@, fullname)]
            /\ frontend' = <<TabsChanged(<<>>, <<available_shares'[k]>>, <<>>)>>
            /\ UNCHANGED <<shares, used_db_paths, db_files, testconnects,
                           next_uuid>>
       ELSE IF share_id \in DOMAIN available_shares
       THEN LET info == available_shares[share_id] IN
            /\ available_shares' = [available_shares EXCEPT
                   ![share_id] = IF info.share_available
                                 THEN [info EXCEPT !.name = fullname,
                                                   !.stale_callback = None]
                                 ELSE [info EXCEPT !.name = fullname]]
            /\ frontend' = IF info.share_available
                           THEN <<TabsChanged(<<>>,
                                     <<available_shares'[share_id]>>, <<>>)>>
                           ELSE <<>>
            /\ UNCHANGED <<shares, used_db_paths, db_files, testconnects,
                           next_uuid>>
       ELSE /\ next_uuid < MaxUuid
            /\ \E failing \in SUBSET db_files :
                 LET db_path == find_unused_db(failing) IN
                 IF db_path = AssertionError
                 THEN \* Share() raised: the callback ends here
                      /\ frontend' = <<>>
                      /\ UNCHANGED <<shares, available_shares, used_db_paths,
                                     db_files, testconnects, next_uuid>>
                 ELSE LET share == Share(share_id, fullname, endpoint, db_path)
                          info == [SharingInfo(share) EXCEPT
                                      !.connect_uuid = uuid4]
                      IN
                      /\ used_db_paths' = used_db_paths \cup {db_path}
                      /\ db_files' = db_files \cup {db_path}
                      /\ shares' = Put(shares, share_id, share)
                      /\ next_uuid' = next_uuid + 1
                      /\ available_shares' =
                             Put(available_shares, share_id, info)
                      /\ try_to_add(share_id, info.connect_uuid)
                      /\ frontend' = <<>>

\* remove_timeout_callback(share_id, share_info): the grace timer of a
\* connected share expired.
remove_timeout_callback(share_id) ==
    /\ share_id \in DOMAIN available_shares
    /\ available_shares[share_id].stale_callback # None
    /\ frontend' = <<SharingDisappeared(available_shares[share_id])>>
    /\ available_shares' = Del(available_shares, share_id)
    /\ destroy_share(share_id)
    /\ UNCHANGED <<name_to_id_map, trackers, testconnects, next_uuid>>
    /\ UNCHANGED <<catalogVars, pollVars, clientVars, transcodeVars, otherVars>>

\* Mutant of still_bound: the other names of the share are not looked at.
still_bound_never(map, share_id) == FALSE

\* share_id in self.name_to_id_map.values(), after the del.
still_bound(map, share_id) == share_id \in Values(map)

\* mdns_callback_backend(added=False, ...) past the own-name test.
mdns_removed(fullname) ==
    IF fullname \notin DOMAIN name_to_id_map
    THEN \* KeyError: taken care of already
         /\ frontend' = <<>>
         /\ UNCHANGED <<name_to_id_map, shares, available_shares,
                        used_db_paths, db_files, testconnects, next_uuid>>
    ELSE LET share_id == name_to_id_map[fullname] IN
         /\ name_to_id_map' = Del(name_to_id_map, fullname)
         /\ UNCHANGED <<testconnects, next_uuid>>
         /\ IF \/ still_bound(name_to_id_map', share_id)
               \/ share_id \notin DOMAIN available_shares
            THEN \* another name still maps to the share (or the lookup of the
                 \* victim raises KeyError)
                 /\ frontend' = <<>>
                 /\ UNCHANGED <<shares, available_shares, used_db_paths,
                                db_files>>
            ELSE IF share_id \notin DOMAIN trackers
            THEN LET victim == available_shares[share_id] IN
                 /\ available_shares' = Del(available_shares, share_id)
                 /\ destroy_share(share_id)
                 /\ frontend' = IF victim.connect_uuid = None
                                THEN <<SharingDisappeared(victim)>>
                                ELSE <<>>
            ELSE \* the share has an entry in self.trackers: start the
                 \* 2 second timer, replacing a pending one
                 /\ available_shares' = [available_shares EXCEPT
                        ![share_id].stale_callback = "remove_timeout_callback"]
                 /\ frontend' = <<>>
                 /\ UNCHANGED <<shares, used_db_paths, db_files>>

\* mdns_callback_backend(added, fullname, host, port), run in the eventloop.
mdns_callback_backend(added, fullname, endpoint) ==
    /\ IF fullname = ServerName
       THEN /\ frontend' = <<>>
            /\ UNCHANGED <<name_to_id_map, shares, available_shares,
                           used_db_paths, db_files, testconnects, next_uuid>>
       ELSE IF added THEN mdns_added(fullname, endpoint)
       ELSE mdns_removed(fullname)
    /\ UNCHANGED trackers
    /\ UNCHANGED <<catalogVars, pollVars, clientVars, transcodeVars, otherVars>>

\* Mutant of try_to_add_success: the uuid of the test connect is not
\* compared with the share's connect_uuid.
try_to_add_success_unfenced(t) ==
    /\ t \in testconnects
    /\ testconnects' = testconnects \ {t}
    /\ IF t.share_id \in DOMAIN available_shares
       THEN /\ available_shares' = [available_shares EXCEPT
                   ![t.share_id] = [@ EXCEPT !.connect_uuid = None,
                                             !.share_available = TRUE]]
            /\ frontend' = <<TabsChanged(<<available_shares'[t.share_id]>>,
                                         <<>>, <<>>)>>
       ELSE /\ frontend' = <<>>
            /\ UNCHANGED available_shares
    /\ UNCHANGED <<name_to_id_map, shares, trackers, used_db_paths, db_files,
                   next_uuid>>
    /\ UNCHANGED <<catalogVars, pollVars, clientVars, transcodeVars, otherVars>>

\* The answer of a test connect t reaches try_to_add's success() callback.
try_to_add_success(t) ==
    /\ t \in testconnects
    /\ testconnects' = testconnects \ {t}
    /\ IF /\ t.share_id \in DOMAIN available_shares
          /\ available_shares[t.share_id].connect_uuid = t.uuid
       THEN /\ available_shares' = [available_shares EXCEPT
                   ![t.share_id] = [@ EXCEPT !.connect_uuid = None,
                                             !.share_available = TRUE]]
            /\ frontend' = <<TabsChanged(<<available_shares'[t.share_id]>>,
                                         <<>>, <<>>)>>
       ELSE /\ frontend' = <<>>
            /\ UNCHANGED available_shares
    /\ UNCHANGED <<name_to_id_map, shares, trackers, used_db_paths, db_files,
                   next_uuid>>
    /\ UNCHANGED <<catalogVars, pollVars, clientVars, transcodeVars, otherVars>>

\* The answer of a test connect t reaches try_to_add's failure() callback.
try_to_add_failure(t) ==
    /\ t \in testconnects
    /\ testconnects' = testconnects \ {t}
    /\ IF /\ t.share_id \in DOMAIN available_shares
          /\ available_shares[t.share_id].connect_uuid = t.uuid
       THEN available_shares' = [available_shares EXCEPT
                   ![t.share_id].connect_uuid = None]
       ELSE UNCHANGED available_shares
    /\ frontend' = <<>>
    /\ UNCHANGED <<name_to_id_map, shares, trackers, used_db_paths, db_files,
                   next_uuid>>
    /\ UNCHANGED <<catalogVars, pollVars, clientVars, transcodeVars, otherVars>>

\* Share.stop_tracking() of a share that has a tracker, as the pair of new
\* Share and SharingInfo.
stop_tracking(share, info) ==
    <<[share EXCEPT !.tracker = None],
      [info EXCEPT !.is_updating = FALSE, !.mount = FALSE]>>

\* track_share(share_id): the user opened the tab of a share the frontend was
\* told of.  Share.start_tracking() makes the SharingItemTrackerImpl, whose
\* __init__ calls update_started().
track_share(share_id) ==
    /\ share_id \in DOMAIN shares
    /\ available_shares[share_id].share_available
    /\ IF shares[share_id].tracker = None
       THEN /\ shares' = [shares EXCEPT
                   ![share_id].tracker = "SharingItemTrackerImpl"]
            /\ available_shares' = [available_shares EXCEPT
                   ![share_id].is_updating = TRUE]
            /\ frontend' = <<TabsChanged(<<>>,
                                <<available_shares'[share_id]>>, <<>>)>>
       ELSE /\ frontend' = <<>>
            /\ UNCHANGED <<shares, available_shares>>
    /\ UNCHANGED <<name_to_id_map, trackers, used_db_paths, db_files,
                   testconnects, next_uuid>>
    /\ UNCHANGED <<catalogVars, pollVars, clientVars, transcodeVars, otherVars>>

\* stop_tracking_share(share_id): the user ejected the share.
stop_tracking_share(share_id) ==
    /\ share_id \in DOMAIN shares
    /\ IF shares[share_id].tracker # None
       THEN LET r == stop_tracking(shares[share_id],
                                   available_shares[share_id]) IN
            /\ shares' = [shares EXCEPT ![share_id] = r[1]]
            /\ available_shares' = [available_shares EXCEPT ![share_id] = r[2]]
            /\ frontend' = <<TabsChanged(<<>>, <<r[2]>>, <<>>)>>
       ELSE /\ frontend' = <<>>
            /\ UNCHANGED <<shares, available_shares>>
    /\ UNCHANGED <<name_to_id_map, trackers, used_db_paths, db_files,
                   testconnects, next_uuid>>
    /\ UNCHANGED <<catalogVars, pollVars, clientVars, transcodeVars, otherVars>>

\* SharingItemTrackerImpl.client_connect_callback: the first connect of the
\* share's tracker succeeded; update_finished() marks the share mounted.
client_connect_callback(share_id) ==
    /\ share_id \in DOMAIN shares
    /\ shares[share_id].tracker # None
    /\ available_shares[share_id].is_updating
    /\ available_shares' = [available_shares EXCEPT
           ![share_id] = [@ EXCEPT !.mount = TRUE, !.is_updating = FALSE]]
    /\ frontend' = <<TabsChanged(<<>>, <<available_shares'[share_id]>>, <<>>)>>
    /\ UNCHANGED <<name_to_id_map, shares, trackers, used_db_paths, db_files,
                   testconnects, next_uuid>>
    /\ UNCHANGED <<catalogVars, pollVars, clientVars, transcodeVars, otherVars>>

\* SharingItemTrackerImpl.client_connect_error_callback: the first connect
\* failed; update_finished(success=False), then the tracker is stopped
\* unless a stale callback is pending.
client_connect_error_callback(share_id) ==
    /\ share_id \in DOMAIN shares
    /\ shares[share_id].tracker # None
    /\ available_shares[share_id].is_updating
    /\ LET finished == [available_shares[share_id] EXCEPT
                           !.mount = FALSE, !.is_updating = FALSE]
           r == stop_tracking(shares[share_id], finished)
       IN
       IF finished.stale_callback = None
       THEN /\ shares' = [shares EXCEPT ![share_id] = r[1]]
            /\ available_shares' = [available_shares EXCEPT ![share_id] = r[2]]
            /\ frontend' = <<TabsChanged(<<>>, <<finished>>, <<>>),
                             TabsChanged(<<>>, <<r[2]>>, <<>>),
                             SharingConnectFailed(share_id)>>
       ELSE /\ available_shares' = [available_shares EXCEPT
                   ![share_id] = finished]
            /\ frontend' = <<TabsChanged(<<>>, <<finished>>, <<>>),
                             SharingConnectFailed(share_id)>>
            /\ UNCHANGED shares
    /\ UNCHANGED <<name_to_id_map, trackers, used_db_paths, db_files,
                   testconnects, next_uuid>>
    /\ UNCHANGED <<catalogVars, pollVars, clientVars, transcodeVars, otherVars>>

(***************************************************************************)
(* SharingItemTrackerImpl: the client side of one share.  The model        *)
(* follows the first tracker made for the share ClientShare: its thread,   *)
(* the callbacks the thread hands to the eventloop, and the merge of the   *)
(* results into the mirrored database.                                     *)
(***************************************************************************)
\* The DAAP item and playlist ids of the remote share.
ClientItems == 1..NumClientItems
ClientPlaylists == 1..NumClientPlaylists
\* The items that are members of some remote playlist.
PlaylistMembers == 1..NumPlaylistMembers

\* The endpoint and the id of the share whose tracker is modelled.
ClientEndpoint == 1
ClientShare == Abs(hash(ClientEndpoint))

\* The lists of at most n distinct elements of S.
RECURSIVE DistinctSeqs(_, _)
DistinctSeqs(S, n) ==
    IF n = 0 \/ S = {} THEN {<<>>}
    ELSE {<<>>} \cup UNION {{<<x>> \o t : t \in DistinctSeqs(S \ {x}, n - 1)} :
                               x \in S}

\* The playlist data the merge reads: playlist_data_valid() and the
\* DAAP_PODCAST_KEY flag.
PlaylistData == [valid : BOOLEAN, podcast : BOOLEAN]

\* The dicts with keys in K and values in V.
Dicts(K, V) == UNION {[D -> V] : D \in SUBSET K}

\* _ClientUpdateResult after fetch_from_client, the item part: a server does
\* not report an id as changed and deleted at once.  The item data and
\* item_paths are not modelled.
ItemResults ==
    UNION {{[items |-> i, deleted_items |-> d] :
               d \in DistinctSeqs(ClientItems \ i, MaxDeleted)} :
           i \in SUBSET ClientItems}

\* The playlist part: fetch_playlist_items fills playlist_items and
\* playlist_deleted_items for the keys of playlists.
PlaylistResultsOf(ids, datas) ==
    UNION {{[playlists |-> p, deleted_playlists |-> dp,
             playlist_items |-> pi, playlist_deleted_items |-> pd] :
               dp \in DistinctSeqs(ids \ DOMAIN p, MaxDeleted),
               pi \in [DOMAIN p -> SUBSET PlaylistMembers],
               pd \in [DOMAIN p -> SUBSET PlaylistMembers]} :
           p \in Dicts(ids, datas)}

PlaylistResults == PlaylistResultsOf(ClientPlaylists, PlaylistData)

\* What the remote server can report when its library does not change and
\* its playlists do, one more playlist than ClientPlaylists and no podcast.
RemotePlaylists == 1..(NumClientPlaylists + 1)
PlaylistUpdateResults ==
    {[items |-> {}, deleted_items |-> <<>>,
      playlists |-> b.playlists, deleted_playlists |-> b.deleted_playlists,
      playlist_items |-> b.playlist_items,
      playlist_deleted_items |-> b.playlist_deleted_items] :
        b \in {x \in PlaylistResultsOf(RemotePlaylists,
                                       [valid : BOOLEAN, podcast : {FALSE}]) :
                  \A q \in DOMAIN x.playlists :
                      x.playlist_items[q] \cap x.playlist_deleted_items[q]
                          = {}}}

\* What the remote server can report in one connect or update.
ClientUpdateResults ==
    {[items |-> a.items, deleted_items |-> a.deleted_items,
      playlists |-> b.playlists, deleted_playlists |-> b.deleted_playlists,
      playlist_items |-> b.playlist_items,
      playlist_deleted_items |-> b.playlist_deleted_items] :
        a \in ItemResults,
        b \in {x \in PlaylistResults :
                  \A q \in DOMAIN x.playlists :
                      x.playlist_items[q] \cap x.playlist_deleted_items[q]
                          = {}}}

\* The local variable sharing_item of update_sharing_items before its first
\* assignment.
Unbound == 0

RECURSIVE items_loop(_, _, _)
\* update_sharing_items, the loop over result.items in the order of todo.
\* st holds current_item_ids (ids), the SharingItems in the database (db),
\* the local sharing_item (var) and the exception that ended the call.
items_loop(todo, st, cl) ==
    IF todo = <<>> \/ st.raised # None THEN st
    ELSE LET daap_id == Head(todo) IN
         IF daap_id \notin st.ids
         THEN IF cl = None
              THEN \* make_sharing_item reads self.client.host
                   [st EXCEPT !.raised = "AttributeError"]
              ELSE items_loop(Tail(todo),
                       [st EXCEPT !.ids = @ \cup {daap_id},
                                  !.db = @ \cup {daap_id}], cl)
         ELSE IF daap_id \notin st.db
              THEN \* get_sharing_item finds no object
                   [st EXCEPT !.raised = "ObjectNotFound"]
              ELSE items_loop(Tail(todo), [st EXCEPT !.var = daap_id], cl)

RECURSIVE deleted_loop(_, _, _)
\* update_sharing_items, the loop over result.deleted_items.  After the
\* except clause the loop body goes on to sharing_item.remove() with the
\* object the variable held before; remove_raises tells whether remove() of
\* an object that was removed already raises.
deleted_loop(todo, st, remove_raises) ==
    IF todo = <<>> \/ st.raised # None THEN st
    ELSE LET item_id == Head(todo) IN
         IF item_id \in st.db
         THEN deleted_loop(Tail(todo),
                  [st EXCEPT !.var = item_id, !.db = @ \ {item_id}],
                  remove_raises)
         ELSE IF st.var = Unbound
              THEN [st EXCEPT !.raised = "UnboundLocalError"]
              ELSE IF st.var \in st.db
              THEN deleted_loop(Tail(todo),
                       [st EXCEPT !.db = @ \ {st.var}], remove_raises)
              ELSE IF remove_raises
              THEN [st EXCEPT !.raised = "DatabaseError"]
              ELSE deleted_loop(Tail(todo), st, remove_raises)

\* SharingItemTrackerImpl.update_sharing_items(result) run with
\* self.client = cl.
update_sharing_items(res, ids, db, cl, remove_raises) ==
    deleted_loop(res.deleted_items,
                 items_loop(SetToSeq(res.items),
                            [ids |-> ids, db |-> db, var |-> Unbound,
                             raised |-> None], cl),
                 remove_raises)

RECURSIVE deleted_playlists_loop(_, _)
\* _ClientPlaylistTracker.update, the loop over result.deleted_playlists.
deleted_playlists_loop(todo, st) ==
    IF todo = <<>> \/ st.raised # None THEN st
    ELSE IF Head(todo) \notin DOMAIN st.data
         THEN [st EXCEPT !.raised = "KeyError"]
         ELSE deleted_playlists_loop(Tail(todo),
                  [st EXCEPT !.data = Del(@, Head(todo)),
                             !.items = Del(@, Head(todo))])

\* _ClientPlaylistTracker.update(result) on playlist_data (data) and
\* playlist_items (items).
playlist_tracker_update(res, data, items) ==
    LET st1 == [data |-> [p \in DOMAIN data \cup DOMAIN res.playlists |->
                             IF p \in DOMAIN res.playlists
                             THEN res.playlists[p] ELSE data[p]],
                items |-> [p \in DOMAIN items \cup DOMAIN res.playlists |->
                             IF p \in DOMAIN res.playlists /\
                                p \notin DOMAIN data
                             THEN {} ELSE items[p]],
                raised |-> None]
        st2 == deleted_playlists_loop(res.deleted_playlists, st1)
    IN  IF st2.raised # None THEN st2
        ELSE IF ~(DOMAIN res.playlist_items \subseteq DOMAIN st2.items)
        THEN [st2 EXCEPT !.raised = "KeyError"]
        ELSE [st2 EXCEPT !.items =
                 [p \in DOMAIN st2.items |->
                     IF p \in DOMAIN res.playlist_items
                     THEN (st2.items[p] \cup res.playlist_items[p])
                              \ res.playlist_deleted_items[p]
                     ELSE st2.items[p]]]

\* _ClientPlaylistTracker.current_playlists(): the ids of the visible
\* playlists.
current_playlists(data, items) ==
    {p \in DOMAIN data : p \in DOMAIN items /\ items[p] # {} /\ data[p].valid}

\* _ClientPlaylistTracker.items_in_podcasts()
items_in_podcasts(data, items) ==
    UNION {items[p] : p \in {q \in DOMAIN data : data[q].podcast}}

\* _ClientPlaylistTracker.items_in_playlists()
items_in_playlists(data, items) ==
    UNION {items[p] : p \in {q \in DOMAIN data : ~data[q].podcast}}

\* messages.SharingPlaylistInfo, as make_playlist_sharing_info builds it.
make_playlist_sharing_info(daap_id, data) ==
    [share_id |-> ClientShare, playlist_id |-> daap_id,
     podcast |-> data.podcast]

\* SharingItemTrackerImpl.update_playlists(result): the new playlist_data
\* (data), playlist_items (items), persisted membership (map), persisted
\* virtual playlists (fake), current_playlist_ids (cur), the exception raised
\* and the messages sent.
update_playlists(res, data, items, map, fake, cur) ==
    LET t == playlist_tracker_update(res, data, items)
        old == items
        new == t.items
        gone == {p \in DOMAIN old : p \notin DOMAIN new}
        differ == {p \in DOMAIN new : p \notin DOMAIN old \/ new[p] # old[p]}
        playlist_items_changed == gone # {} \/ differ # {}
        cp == current_playlists(t.data, new)
        added == cp \ cur
        changed == (cp \cap cur) \cap DOMAIN res.playlists
        removed == cur \ cp
        info(p) == make_playlist_sharing_info(p, t.data[p])
    IN  IF t.raised # None
        THEN [data |-> t.data, items |-> t.items, map |-> map, fake |-> fake,
              cur |-> cur, raised |-> t.raised, msgs |-> <<>>]
        ELSE [data |-> t.data,
              items |-> new,
              map |-> [p \in (DOMAIN map \ gone) \cup differ |->
                          IF p \in differ THEN new[p] ELSE map[p]],
              fake |-> IF \/ playlist_items_changed
                          \/ added # {} \/ changed # {} \/ removed # {}
                       THEN \* update_fake_playlists()
                            [podcast |-> items_in_podcasts(t.data, new),
                             playlist |-> items_in_playlists(t.data, new)]
                       ELSE fake,
              cur |-> cp,
              raised |-> None,
              msgs |-> <<TabsChanged([i \in 1..Cardinality(added) |->
                                         info(SetToSeq(added)[i])],
                                     [i \in 1..Cardinality(changed) |->
                                         info(SetToSeq(changed)[i])],
                                     SetToSeq(removed))>>]

\* What the remote server has asserted after result, by the reports alone:
\* the ids received in items and not deleted afterwards.
ReceivedAfter(res, rec) == (rec \cup res.items) \ Range(res.deleted_items)

\* The membership the remote server has asserted for each playlist after
\* result: additions minus deletions, playlist by playlist.
AssertedAfter(res, asr) ==
    LET kept == DOMAIN asr \ Range(res.deleted_playlists) IN
    [p \in kept \cup DOMAIN res.playlists |->
        IF p \in DOMAIN res.playlists
        THEN ((IF p \in DOMAIN asr THEN asr[p] ELSE {})
                  \cup res.playlist_items[p])
                 \ res.playlist_deleted_items[p]
        ELSE asr[p]]

\* client_connect_callback drops the deletions of the first result.
IgnoreDeleted(res) ==
    [res EXCEPT !.deleted_items = <<>>, !.deleted_playlists = <<>>,
                   !.playlist_deleted_items =
                       [p \in DOMAIN res.playlists |-> {}]]

\* The playlist ids among the infos of a TabsChanged list; the infos of
\* shares carry none.
playlist_ids(infos) ==
    {infos[i].playlist_id :
        i \in {j \in DOMAIN infos : "playlist_id" \in DOMAIN infos[j]}}

RECURSIVE tabs_after(_, _)
\* The frontend's handling of TabsChanged('connect', added, changed,
\* removed): the tabs of the added playlists appear and those of the
\* removed ones go.
tabs_after(tabs, msgs) ==
    IF msgs = <<>> THEN tabs
    ELSE tabs_after((tabs \cup playlist_ids(Head(msgs).added))
                        \ Range(Head(msgs).removed),
                    Tail(msgs))

\* Mutant of merge_done: update_finished() is called whatever the merge did.
merge_done_always(si, up) == TRUE

\* The callback gets to the statement after update_playlists(result) only
\* if neither update_sharing_items nor update_playlists has raised.
merge_done(si, up) == si.raised = None /\ up.raised = None

\* The body shared by client_connect_callback and client_update_callback:
\* update_sharing_items(result), then update_playlists(result); an exception
\* ends the callback where it is raised.  finish tells whether
\* share.update_finished() follows.
merge_result(res, remove_raises, finish) ==
    LET si == update_sharing_items(res, current_item_ids, sharing_items,
                                   client, remove_raises)
        up == update_playlists(res, playlist_data, playlist_items,
                               client_playlist_item_map, fake_playlists,
                               current_playlist_ids)
        done == merge_done(si, up)
        info == [available_shares[ClientShare] EXCEPT
                    !.mount = TRUE, !.is_updating = FALSE]
    IN
    /\ current_item_ids' = si.ids
    /\ sharing_items' = si.db
    /\ received' = ReceivedAfter(res, received)
    /\ merged' = [items |-> res.items, deleted_items |-> res.deleted_items]
    /\ asserted' = AssertedAfter(res, asserted)
    /\ IF si.raised # None
       THEN /\ raised' = si.raised
            /\ frontend' = <<>>
            /\ UNCHANGED <<playlist_data, playlist_items,
                           client_playlist_item_map, fake_playlists,
                           current_playlist_ids>>
       ELSE /\ raised' = up.raised
            /\ playlist_data' = up.data
            /\ playlist_items' = up.items
            /\ client_playlist_item_map' = up.map
            /\ fake_playlists' = up.fake
            /\ current_playlist_ids' = up.cur
            /\ frontend' = IF finish /\ done
                           THEN up.msgs \o <<TabsChanged(<<>>, <<info>>, <<>>)>>
                           ELSE up.msgs
    /\ playlist_tabs' = tabs_after(playlist_tabs, frontend')
    /\ IF finish /\ done
       THEN available_shares' = [available_shares EXCEPT ![ClientShare] = info]
       ELSE UNCHANGED available_shares

\* Whether remove() of an object that is no longer in the database raises is
\* the database's business; it can only matter after two deletions.
RemoveOutcomes(res) ==
    IF Len(res.deleted_items) >= 2 THEN BOOLEAN ELSE {FALSE}

\* Share.start_tracking(), called by track_share: the SharingItemTrackerImpl
\* is made, its __init__ calls update_started() and starts the thread.
start_tracking(share_id) ==
    /\ share_id = ClientShare
    /\ share_id \in DOMAIN shares
    /\ available_shares[share_id].share_available
    /\ shares[share_id].tracker = None
    /\ thread_pc = "none"
    /\ thread_pc' = "connect"
    /\ shares' = [shares EXCEPT ![share_id].tracker = "SharingItemTrackerImpl"]
    /\ available_shares' = [available_shares EXCEPT
           ![share_id].is_updating = TRUE]
    /\ frontend' = <<TabsChanged(<<>>, <<available_shares'[share_id]>>, <<>>)>>
    /\ UNCHANGED <<name_to_id_map, trackers, used_db_paths, db_files,
                   testconnects, next_uuid>>
    /\ UNCHANGED <<client, idle_calls, current_item_ids, current_playlist_ids,
                   playlist_data, playlist_items, sharing_items,
                   client_playlist_item_map, fake_playlists, asserted,
                   received, merged, raised, disconnected,
                   playlist_tabs>>
    /\ UNCHANGED <<catalogVars, pollVars, transcodeVars, otherVars>>

\* The tracker's thread, client_connect(): make_client() stores the client.
make_client ==
    /\ thread_pc = "connect"
    /\ thread_pc' = "fetch"
    /\ client' = "DaapClient"
    /\ UNCHANGED <<idle_calls, current_item_ids, current_playlist_ids,
                   playlist_data, playlist_items, sharing_items,
                   client_playlist_item_map, fake_playlists, asserted,
                   received, merged, raised, disconnected,
                   playlist_tabs>>
    /\ UNCHANGED <<catalogVars, pollVars, trackerVars, transcodeVars,
                   otherVars>>

\* The tracker's thread, runloop: the rest of run_client_connect().  The
\* connect and the fetches succeed (ok) or raise, as they do once
\* client_disconnect() has stored None in self.client, and run() hands the
\* callback to the eventloop.  The loop goes on only if the server supports
\* update.
client_connect(ok, supports_update) ==
    /\ thread_pc = "fetch"
    /\ Len(idle_calls) < MaxIdle
    /\ idle_calls' = Append(idle_calls,
           IF ok /\ client # None THEN "client_connect_callback"
           ELSE "client_connect_error_callback")
    /\ thread_pc' = IF ok /\ client # None /\ supports_update
                    THEN "update" ELSE "exit"
    /\ UNCHANGED <<client, current_item_ids, current_playlist_ids,
                   playlist_data,
                   playlist_items, sharing_items, client_playlist_item_map,
                   fake_playlists, asserted, received, merged, raised,
                   disconnected, playlist_tabs>>
    /\ UNCHANGED <<catalogVars, pollVars, trackerVars, transcodeVars,
                   otherVars>>

\* The tracker's thread, runloop: run_client_update().  self.client.update()
\* raises AttributeError once client_disconnect() has stored None.
client_update(ok) ==
    /\ thread_pc = "update"
    /\ Len(idle_calls) < MaxIdle
    /\ IF ok /\ client # None
       THEN /\ idle_calls' = Append(idle_calls, "client_update_callback")
            /\ UNCHANGED thread_pc
       ELSE /\ idle_calls' = Append(idle_calls, "client_update_error_callback")
            /\ thread_pc' = "exit"
    /\ UNCHANGED <<client, current_item_ids, current_playlist_ids,
                   playlist_data, playlist_items, sharing_items,
                   client_playlist_item_map, fake_playlists, asserted,
                   received, merged, raised, disconnected,
                   playlist_tabs>>
    /\ UNCHANGED <<catalogVars, pollVars, trackerVars, transcodeVars,
                   otherVars>>

\* The eventloop runs client_connect_callback(result), handed over by
\* add_idle as 'result callback'.
idle_client_connect_callback(res, remove_raises) ==
    /\ idle_calls # <<>>
    /\ Head(idle_calls) = "client_connect_callback"
    /\ idle_calls' = Tail(idle_calls)
    /\ merge_result(IgnoreDeleted(res), remove_raises, TRUE)
    /\ UNCHANGED <<client, thread_pc, disconnected>>
    /\ UNCHANGED <<name_to_id_map, shares, trackers, used_db_paths, db_files,
                   testconnects, next_uuid>>
    /\ UNCHANGED <<catalogVars, pollVars, transcodeVars, otherVars>>

\* The eventloop runs client_update_callback(result).
idle_client_update_callback(res, remove_raises) ==
    /\ idle_calls # <<>>
    /\ Head(idle_calls) = "client_update_callback"
    /\ idle_calls' = Tail(idle_calls)
    /\ merge_result(res, remove_raises, FALSE)
    /\ UNCHANGED <<client, thread_pc, disconnected>>
    /\ UNCHANGED <<name_to_id_map, shares, trackers, used_db_paths, db_files,
                   testconnects, next_uuid>>
    /\ UNCHANGED <<catalogVars, pollVars, transcodeVars, otherVars>>

\* Share.stop_tracking() of ClientShare from the state where its
\* SharingInfo is info: client_disconnect() stores None in self.client and
\* hands client.disconnect to a thread, reset_database() deletes the
\* SharingItems, the flags are cleared and TabsChanged is sent.
share_stop_tracking(info) ==
    LET r == stop_tracking(shares[ClientShare], info) IN
    /\ client' = None
    /\ disconnected' = TRUE
    /\ sharing_items' = {}
    /\ shares' = [shares EXCEPT ![ClientShare] = r[1]]
    /\ available_shares' = [available_shares EXCEPT ![ClientShare] = r[2]]

\* stop_tracking_share(share_id) for the share of the modelled tracker: the
\* user disconnects.  With self.client still None, client_disconnect()
\* raises AttributeError on client.disconnect and stop_tracking() ends there.
eject(share_id) ==
    /\ share_id = ClientShare
    /\ share_id \in DOMAIN shares
    /\ shares[share_id].tracker # None
    /\ IF client = None
       THEN /\ raised' = "AttributeError"
            /\ frontend' = <<>>
            /\ UNCHANGED <<client, disconnected, idle_calls, sharing_items,
                           shares, available_shares>>
       ELSE /\ share_stop_tracking(available_shares[share_id])
            /\ idle_calls' = Append(idle_calls, "client_disconnect_callback")
            /\ raised' = None
            /\ frontend' = <<TabsChanged(<<>>,
                                <<available_shares'[share_id]>>, <<>>)>>
    /\ UNCHANGED <<thread_pc, current_item_ids, current_playlist_ids,
                   playlist_data, playlist_items, client_playlist_item_map,
                   fake_playlists, asserted, received, merged,
                   playlist_tabs>>
    /\ UNCHANGED <<name_to_id_map, trackers, used_db_paths, db_files,
                   testconnects, next_uuid>>
    /\ UNCHANGED <<catalogVars, pollVars, transcodeVars, otherVars>>

\* self.share.info of the tracker once mdns_callback_backend has deleted the
\* share, announced as "A", from shares and available_shares: the tracker
\* was started, so the test connect had succeeded; update_started() set
\* is_updating, update_finished(success=False) clears it again.
tracker_share_info ==
    [SharingInfo(Share(ClientShare, "A", ClientEndpoint, None)) EXCEPT
        !.share_available = TRUE]

\* The eventloop runs client_connect_error_callback or
\* client_update_error_callback (update), both
\* client_connect_update_error_callback.  For a share that has left
\* self.shares, stop_tracking_share() logs the KeyError and does nothing.
idle_client_error_callback(update) ==
    /\ idle_calls # <<>>
    /\ Head(idle_calls) = IF update THEN "client_update_error_callback"
                          ELSE "client_connect_error_callback"
    /\ IF client = None
       THEN \* a disconnect has done the work
            /\ idle_calls' = Tail(idle_calls)
            /\ frontend' = <<>>
            /\ UNCHANGED <<client, disconnected, sharing_items, shares,
                           available_shares>>
       ELSE IF ClientShare \notin DOMAIN shares
       THEN /\ idle_calls' = Tail(idle_calls)
            /\ frontend' =
                   (IF update THEN <<>>
                    ELSE <<TabsChanged(<<>>, <<tracker_share_info>>, <<>>)>>)
                   \o <<SharingConnectFailed(ClientShare)>>
            /\ UNCHANGED <<client, disconnected, sharing_items, shares,
                           available_shares>>
       ELSE LET finished == IF update THEN available_shares[ClientShare]
                            ELSE [available_shares[ClientShare] EXCEPT
                                     !.mount = FALSE, !.is_updating = FALSE]
            IN
            IF finished.stale_callback = None /\
               shares[ClientShare].tracker # None
            THEN /\ share_stop_tracking(finished)
                 /\ idle_calls' = Append(Tail(idle_calls),
                                         "client_disconnect_callback")
                 /\ frontend' =
                        (IF update THEN <<>>
                         ELSE <<TabsChanged(<<>>, <<finished>>, <<>>)>>)
                        \o <<TabsChanged(<<>>,
                                 <<available_shares'[ClientShare]>>, <<>>),
                             SharingConnectFailed(ClientShare)>>
            ELSE /\ idle_calls' = Tail(idle_calls)
                 /\ available_shares' = [available_shares EXCEPT
                        ![ClientShare] = finished]
                 /\ frontend' =
                        (IF update THEN <<>>
                         ELSE <<TabsChanged(<<>>, <<finished>>, <<>>)>>)
                        \o <<SharingConnectFailed(ClientShare)>>
                 /\ UNCHANGED <<client, disconnected, sharing_items, shares>>
    /\ raised' = None
    /\ UNCHANGED <<thread_pc, current_item_ids, current_playlist_ids,
                   playlist_data, playlist_items, client_playlist_item_map,
                   fake_playlists, asserted, received, merged,
                   playlist_tabs>>
    /\ UNCHANGED <<name_to_id_map, trackers, used_db_paths, db_files,
                   testconnects, next_uuid>>
    /\ UNCHANGED <<catalogVars, pollVars, transcodeVars, otherVars>>

\* The eventloop runs client_disconnect_callback (or its error twin): the
\* playlists of the share leave the sidebar.
idle_client_disconnect_callback ==
    /\ idle_calls # <<>>
    /\ Head(idle_calls) = "client_disconnect_callback"
    /\ idle_calls' = Tail(idle_calls)
    /\ frontend' = <<TabsChanged(<<>>, <<>>, SetToSeq(current_playlist_ids))>>
    /\ playlist_tabs' = tabs_after(playlist_tabs, frontend')
    /\ raised' = None
    /\ UNCHANGED <<client, thread_pc, current_item_ids, current_playlist_ids,
                   playlist_data, playlist_items, sharing_items,
                   client_playlist_item_map, fake_playlists, asserted,
                   received, merged, disconnected>>
    /\ UNCHANGED <<name_to_id_map, shares, available_shares, trackers,
                   used_db_paths, db_files, testconnects, next_uuid>>
    /\ UNCHANGED <<catalogVars, pollVars, transcodeVars, otherVars>>

(***************************************************************************)
(* SharingManagerBackend.get_file, finished_callback and shutdown: the     *)
(* per-session transcode jobs.  get_file runs on the server's request      *)
(* threads; it takes item_lock for the lookup and transcode_lock for the   *)
(* decision, and calls the job's shutdown(), transcode() and get_chunk()   *)
(* with no lock held, so each of these is a step of its own.               *)
(***************************************************************************)
Threads == 1..NumThreads
\* The DAAP sessions that request files.
TranscodeSessions == {"s" \o ToString(i) : i \in 1..NumStreams}
Generations == 1..MaxGeneration
\* chunk=None, the default of get_file.
NoChunk == -1
Chunks == 0..MaxChunk
\* The ext argument: the two transcode kinds, the cover art, anything else.
TranscodeExts == {"ts", "m3u8"}
Exts == TranscodeExts \cup {"coverart", "mp3"}
\* old_transcode_obj = None; jobs are numbered from 1 as they are made.
NoJob == 0

\* transcode_lock when no thread is inside a with block that spans steps.
free == "free"

\* What get_file returns: no_file = (None, None); (a file, the name);
\* (None, the name) when get_chunk() or open() gave nothing.
no_file == "no_file"
file_obj == "file_obj"
null_obj == "null_obj"

\* A request thread: outside get_file (pc "idle", ret is what its last call
\* returned or raised, log what it logged), or past the transcode_lock
\* block with the locals the rest of get_file reads.
IdleCall ==
    [pc |-> "idle", ext |-> None, transcode_obj |-> NoJob,
     old_transcode_obj |-> NoJob, need_create |-> FALSE, ret |-> None,
     log |-> None]

\* logging.debug('item %s transcode out of order', itemid)
out_of_order == "transcode out of order"

Return(t, value) == calls' = [calls EXCEPT ![t] = [IdleCall EXCEPT !.ret = value]]

\* transcode.TranscodeObject(path, itemid, generation, chunk, info,
\* request_path_func): a job that has not been started; it delivers from
\* the requested chunk, or from the first one.
TranscodeObject(itemid, generation, chunk) ==
    [itemid |-> itemid, generation |-> generation,
     current_chunk |-> IF chunk = NoChunk THEN 0 ELSE chunk,
     started |-> FALSE, shut |-> FALSE]

\* TranscodeObject.isseek(chunk): the chunk is not the one the job delivers
\* next.
isseek(job, chunk) == chunk # job.current_chunk

\* TranscodeObject.shutdown()
job_shutdown(js, j) == [js EXCEPT ![j].shut = TRUE]

\* TranscodeObject.transcode()
job_transcode(js, j) == [js EXCEPT ![j].started = TRUE]

\* TranscodeObject.get_chunk(): a job that was shut down delivers nothing.
get_chunk(job) == IF job.shut THEN null_obj ELSE file_obj

\* The job after get_chunk() delivered a chunk.
chunk_delivered(job) ==
    IF job.current_chunk < MaxChunk
    THEN [job EXCEPT !.current_chunk = @ + 1]
    ELSE job

\* Mutant of gate_decision: a request of an older generation is served by
\* the session's job.
gate_decision_serves_stale(itemid, generation, session, chunk) ==
    IF in_shutdown THEN <<TRUE, FALSE, NoJob>>
    ELSE IF session \notin DOMAIN transcode THEN <<FALSE, TRUE, NoJob>>
    ELSE LET j == transcode[session]
         IN  IF jobs[j].itemid # itemid THEN <<FALSE, TRUE, j>>
             ELSE IF chunk # NoChunk /\ isseek(jobs[j], chunk)
             THEN <<FALSE, TRUE, j>>
             ELSE <<FALSE, FALSE, NoJob>>

\* The decision of the "with self.transcode_lock" block: <<return no_file,
\* need_create, old_transcode_obj>>.
gate_decision(itemid, generation, session, chunk) ==
    IF in_shutdown THEN <<TRUE, FALSE, NoJob>>
    ELSE IF session \notin DOMAIN transcode THEN <<FALSE, TRUE, NoJob>>
    ELSE LET j == transcode[session]
         IN  IF jobs[j].itemid # itemid THEN <<FALSE, TRUE, j>>
             ELSE IF generation < jobs[j].generation
             THEN <<TRUE, FALSE, NoJob>>
             ELSE IF chunk # NoChunk /\ isseek(jobs[j], chunk)
             THEN <<FALSE, TRUE, j>>
             ELSE <<FALSE, FALSE, NoJob>>

\* get_file, "with self.transcode_lock:": look the session's job up, decide
\* whether to make a new one, store the job of this request in the map.
transcode_gate(t, itemid, generation, ext, session, chunk) ==
    LET d == gate_decision(itemid, generation, session, chunk)
        new == Len(jobs) + 1
    IN  IF d[1]
        THEN /\ calls' = [calls EXCEPT ![t] =
                   [IdleCall EXCEPT !.ret = no_file,
                                    !.log = IF in_shutdown THEN None
                                            ELSE out_of_order]]
             /\ UNCHANGED <<transcode, jobs>>
        ELSE /\ d[2] => Len(jobs) < MaxJobs
             /\ jobs' = IF d[2]
                        THEN Append(jobs,
                                 TranscodeObject(itemid, generation, chunk))
                        ELSE jobs
             /\ transcode' = Put(transcode, session,
                                 IF d[2] THEN new ELSE transcode[session])
             /\ calls' = [calls EXCEPT ![t] =
                   [pc |-> IF d[3] # NoJob THEN "old_shutdown"
                           ELSE IF d[2] THEN "transcode"
                           ELSE "serve",
                    ext |-> ext,
                    transcode_obj |-> IF d[2] THEN new
                                      ELSE transcode[session],
                    old_transcode_obj |-> d[3],
                    need_create |-> d[2],
                    ret |-> None,
                    log |-> None]]

\* get_file(...) up to the release of transcode_lock, or to its return on
\* the paths that take no transcode_lock.  The lookup under item_lock reads
\* the catalog only and the block under transcode_lock does not read the
\* catalog, so the two run as one step.  A tombstone (deleted_item) has no
\* 'path'.  For any other ext "del self.transcode[session]" forgets the
\* session's job (the KeyError is ignored) and the file is opened.
get_file(t, itemid, generation, ext, session, chunk) ==
    /\ calls[t].pc = "idle"
    /\ IF itemid \notin DOMAIN daapitems
       THEN /\ Return(t, no_file)
            /\ UNCHANGED <<transcode, jobs>>
       ELSE IF ~daapitems[itemid].valid
       THEN /\ Return(t, "KeyError")
            /\ UNCHANGED <<transcode, jobs>>
       ELSE IF ext \in TranscodeExts
       THEN /\ transcode_lock = free
            /\ transcode_gate(t, itemid, generation, ext, session, chunk)
       ELSE IF ext = "coverart"
       THEN /\ \E opened \in {file_obj, null_obj} : Return(t, opened)
            /\ UNCHANGED <<transcode, jobs>>
       ELSE /\ transcode' = Del(transcode, session)
            /\ \E opened \in {file_obj, null_obj} : Return(t, opened)
            /\ UNCHANGED jobs
    /\ UNCHANGED <<in_shutdown, lockVars>>
    /\ UNCHANGED <<catalogVars, pollVars, trackerVars, clientVars, otherVars>>

\* Mutant of old_shutdown: the job that was replaced is left running.
old_shutdown_skipped(t) ==
    /\ calls[t].pc = "old_shutdown"
    /\ calls' = [calls EXCEPT ![t].pc = "transcode"]
    /\ UNCHANGED <<transcode, jobs, in_shutdown, lockVars>>
    /\ UNCHANGED <<catalogVars, pollVars, trackerVars, clientVars, otherVars>>

\* get_file, "if old_transcode_obj: old_transcode_obj.shutdown()", after the
\* lock is released.  A job was replaced only if need_create is set.
old_shutdown(t) ==
    /\ calls[t].pc = "old_shutdown"
    /\ jobs' = job_shutdown(jobs, calls[t].old_transcode_obj)
    /\ calls' = [calls EXCEPT ![t].pc = "transcode"]
    /\ UNCHANGED <<transcode, in_shutdown, lockVars>>
    /\ UNCHANGED <<catalogVars, pollVars, trackerVars, clientVars, otherVars>>

\* get_file, "if need_create: transcode_obj.transcode()"
start_transcode(t) ==
    /\ calls[t].pc = "transcode"
    /\ jobs' = job_transcode(jobs, calls[t].transcode_obj)
    /\ calls' = [calls EXCEPT ![t].pc = "serve"]
    /\ UNCHANGED <<transcode, in_shutdown, lockVars>>
    /\ UNCHANGED <<catalogVars, pollVars, trackerVars, clientVars, otherVars>>

\* get_file, the end of the transcode path: get_playlist() for m3u8,
\* get_chunk() for ts.
serve(t) ==
    LET c == calls[t]
        j == c.transcode_obj
    IN  /\ c.pc = "serve"
        /\ IF c.ext = "m3u8"
           THEN /\ Return(t, file_obj)
                /\ UNCHANGED jobs
           ELSE /\ Return(t, get_chunk(jobs[j]))
                /\ jobs' = IF get_chunk(jobs[j]) = file_obj
                           THEN [jobs EXCEPT ![j] = chunk_delivered(@)]
                           ELSE jobs
        /\ UNCHANGED <<transcode, in_shutdown, lockVars>>
        /\ UNCHANGED <<catalogVars, pollVars, trackerVars, clientVars,
                       otherVars>>

\* finished_callback(session): the session's job is shut down, under
\* transcode_lock.
finished_callback(session) ==
    /\ transcode_lock = free
    /\ jobs' = IF session \in DOMAIN transcode
               THEN job_shutdown(jobs, transcode[session])
               ELSE jobs
    /\ UNCHANGED <<transcode, in_shutdown, calls, lockVars>>
    /\ UNCHANGED <<catalogVars, pollVars, trackerVars, clientVars, otherVars>>

\* shutdown(): under one hold of transcode_lock the flag is set and every
\* job of the map is shut down.
shutdown ==
    /\ transcode_lock = free
    /\ in_shutdown' = TRUE
    /\ jobs' = [j \in DOMAIN jobs |->
                   IF \E s \in DOMAIN transcode : transcode[s] = j
                   THEN [jobs[j] EXCEPT !.shut = TRUE]
                   ELSE jobs[j]]
    /\ UNCHANGED <<transcode, calls, lockVars>>
    /\ UNCHANGED <<catalogVars, pollVars, trackerVars, clientVars, otherVars>>

\* dict.keys(): the keys of a dictionary as a list, in the dictionary's order.
RECURSIVE keys(_)
keys(S) ==
    IF S = {} THEN <<>>
    ELSE LET k == CHOOSE x \in S : TRUE IN <<k>> \o keys(S \ {k})

\* shutdown(), step by step: "with self.transcode_lock:" is entered, the
\* flag is set and self.transcode.keys() lists the sessions.
shutdown_lock ==
    /\ transcode_lock = free
    /\ ~in_shutdown
    /\ transcode_lock' = "shutdown"
    /\ in_shutdown' = TRUE
    /\ shutdown_keys' = keys(DOMAIN transcode)
    /\ UNCHANGED <<transcode, jobs, calls, shutdown_raised>>
    /\ UNCHANGED <<catalogVars, pollVars, trackerVars, clientVars, otherVars>>

\* shutdown(), an iteration of the loop: self.transcode[key].shutdown().  A
\* key that has left the map is a KeyError, which ends shutdown() and
\* releases the lock.
shutdown_job ==
    /\ transcode_lock = "shutdown"
    /\ shutdown_keys # <<>>
    /\ IF Head(shutdown_keys) \in DOMAIN transcode
       THEN /\ jobs' = job_shutdown(jobs, transcode[Head(shutdown_keys)])
            /\ shutdown_keys' = Tail(shutdown_keys)
            /\ UNCHANGED <<transcode_lock, shutdown_raised>>
       ELSE /\ shutdown_raised' = "KeyError"
            /\ shutdown_keys' = <<>>
            /\ transcode_lock' = free
            /\ UNCHANGED jobs
    /\ UNCHANGED <<transcode, in_shutdown, calls>>
    /\ UNCHANGED <<catalogVars, pollVars, trackerVars, clientVars, otherVars>>

\* shutdown(), the end of the with block.
shutdown_unlock ==
    /\ transcode_lock = "shutdown"
    /\ shutdown_keys = <<>>
    /\ transcode_lock' = free
    /\ UNCHANGED <<transcode, jobs, in_shutdown, calls, shutdown_keys,
                   shutdown_raised>>
    /\ UNCHANGED <<catalogVars, pollVars, trackerVars, clientVars, otherVars>>

(***************************************************************************)
(* SharingManager: sharing_set_enable() runs on the UI thread, the config  *)
(* watcher delivers 'changed' to on_config_changed() on the backend        *)
(* thread, twiddle_sharing() runs there and ends in sharing_set_complete(),*)
(* whose func runs on the UI thread.                                       *)
(***************************************************************************)
\* The config keys on_config_changed listens to.
listen_keys == {"SHARE_MEDIA", "SHARE_DISCOVERABLE", "SHARE_NAME"}

\* The names the user gives the share.
ShareNames == {"a", "b"}

\* self.mdns_callback = None
no_mdns_callback == [name |-> "", state |-> "none"]

\* No twiddle_sharing() call is running, statement by statement.
NoReconf == [pc |-> "idle", sharing |-> FALSE, discoverable |-> FALSE,
             name |-> "", name_changed |-> FALSE, ret |-> "idle"]

\* No twiddle_sharing() call is running.
NoTwiddle == [pc |-> "idle", key |-> None, sharing |-> FALSE]

\* app.config.set(key, value) has stored the value: every write, one that
\* stores the value already there included, signals 'changed' to the
\* backend thread, which runs on_config_changed(obj, key, value).
config_changed(key) == changed_queue' = Append(changed_queue, key)

\* sharing_set_enable(tag, value): refused while the flag is set; otherwise
\* the flag is set, the start callbacks run (the widget is disabled) and
\* app.config.set(SHARE_MEDIA, value) writes the value and signals 'changed'.
sharing_set_enable(value) ==
    /\ IF sharing_frontend_volatile
       THEN /\ sharing_set_enable_ret' = "False"
            /\ UNCHANGED <<sharing_frontend_volatile, share_media,
                           changed_queue, toggle_widget>>
       ELSE /\ Len(changed_queue) < MaxChanged
            /\ sharing_frontend_volatile' = TRUE
            /\ toggle_widget' = "disabled"
            /\ share_media' = value
            /\ config_changed("SHARE_MEDIA")
            /\ sharing_set_enable_ret' = "True"
    /\ UNCHANGED <<sharing, twiddle, ui_queue, reconfVars>>
    /\ UNCHANGED <<catalogVars, pollVars, trackerVars, clientVars,
                   transcodeVars, discoveryVars, readerVars,
                   convertVars, runloopVars>>

\* app.config.set(key, value) for SHARE_NAME or SHARE_DISCOVERABLE, from the
\* preferences panel.
config_set(key, value) ==
    /\ Len(changed_queue) < MaxChanged
    /\ config_changed(key)
    /\ IF key = "SHARE_NAME"
       THEN share_name' = value /\ UNCHANGED share_discoverable
       ELSE share_discoverable' = value /\ UNCHANGED share_name
    /\ UNCHANGED <<sharing_frontend_volatile, share_media, sharing, twiddle,
                   ui_queue, toggle_widget, sharing_set_enable_ret>>
    /\ UNCHANGED <<discoverable, manager_name, server_name, mdns_callback,
                   manager_pipe, reload_done_event, manager_thread,
                   tracker_paused, reconf>>
    /\ UNCHANGED <<catalogVars, pollVars, trackerVars, clientVars,
                   transcodeVars, discoveryVars, readerVars,
                   convertVars, runloopVars>>

\* on_config_changed(obj, key, value) with a key of listen_keys, and the
\* first lines of twiddle_sharing(): the config is read.
twiddle_sharing_begin ==
    /\ twiddle.pc = "idle"
    /\ changed_queue # <<>>
    /\ changed_queue' = Tail(changed_queue)
    /\ twiddle' = [pc |-> "running", key |-> Head(changed_queue),
                   sharing |-> share_media]
    /\ UNCHANGED <<sharing_frontend_volatile, share_media, sharing, ui_queue,
                   toggle_widget, sharing_set_enable_ret, reconfVars>>
    /\ UNCHANGED <<catalogVars, pollVars, trackerVars, clientVars,
                   transcodeVars, discoveryVars, readerVars,
                   convertVars, runloopVars>>

\* The rest of twiddle_sharing(): the server is enabled (enable_sharing()
\* works or not) or disabled to match the value read, and every path ends
\* in sharing_set_complete(sharing), which hands func to the UI thread.
twiddle_sharing_end(ok) ==
    /\ twiddle.pc = "running"
    /\ Len(ui_queue) < MaxUiCalls
    /\ sharing' = IF twiddle.sharing # sharing
                  THEN twiddle.sharing /\ ok
                  ELSE sharing
    /\ ui_queue' = Append(ui_queue, twiddle.sharing)
    /\ twiddle' = NoTwiddle
    /\ UNCHANGED <<sharing_frontend_volatile, share_media, changed_queue,
                   toggle_widget, sharing_set_enable_ret, reconfVars>>
    /\ UNCHANGED <<catalogVars, pollVars, trackerVars, clientVars,
                   transcodeVars, discoveryVars, readerVars,
                   convertVars, runloopVars>>

\* func of sharing_set_complete(value), on the UI thread: if the flag is
\* set the end callbacks run (the widget is enabled) and the flag clears.
sharing_set_complete_func ==
    /\ ui_queue # <<>>
    /\ ui_queue' = Tail(ui_queue)
    /\ IF ~sharing_frontend_volatile
       THEN UNCHANGED <<sharing_frontend_volatile, toggle_widget>>
       ELSE /\ toggle_widget' = "enabled"
            /\ sharing_frontend_volatile' = FALSE
    /\ UNCHANGED <<share_media, sharing, changed_queue, twiddle,
                   sharing_set_enable_ret, reconfVars>>
    /\ UNCHANGED <<catalogVars, pollVars, trackerVars, clientVars,
                   transcodeVars, discoveryVars, readerVars,
                   convertVars, runloopVars>>

(***************************************************************************)
(* twiddle_sharing() statement by statement, on the backend thread, with   *)
(* SharingManager.server_thread: enable_sharing(), disable_sharing(),      *)
(* enable_discover() and disable_discover() each wait for                  *)
(* reload_done_event, which the server thread sets.                        *)
(***************************************************************************)
CMD_QUIT == "quit"
CMD_NOP == "noop"

\* The reconfigure goes on at statement stmt.
goto(stmt) == reconf' = [reconf EXCEPT !.pc = stmt]

\* SharingManager.on_config_changed(obj, key, value) with a key of
\* listen_keys: the first lines of twiddle_sharing() read the config and
\* compare the name.
twiddle_sharing_read ==
    /\ reconf.pc = "idle"
    /\ changed_queue # <<>>
    /\ changed_queue' = Tail(changed_queue)
    /\ reconf' = [pc |-> "toggle", sharing |-> share_media,
                  discoverable |-> share_discoverable, name |-> share_name,
                  name_changed |-> share_name # manager_name,
                  ret |-> "idle"]
    /\ UNCHANGED <<sharing, ui_queue>>
    /\ UNCHANGED <<share_discoverable, share_name, discoverable, manager_name,
                   server_name, mdns_callback, manager_pipe,
                   reload_done_event, manager_thread, tracker_paused>>
    /\ UNCHANGED <<sharing_frontend_volatile, share_media, twiddle,
                   toggle_widget, sharing_set_enable_ret>>
    /\ UNCHANGED <<catalogVars, pollVars, trackerVars, clientVars,
                   transcodeVars, discoveryVars, readerVars,
                   convertVars, runloopVars>>

\* twiddle_sharing(), "if sharing != self.sharing": which call comes next.
twiddle_sharing_toggle ==
    /\ reconf.pc = "toggle"
    /\ reconf' =
           IF reconf.sharing = sharing
           THEN [reconf EXCEPT !.pc = "short_circuit"]
           ELSE IF reconf.sharing
           THEN [reconf EXCEPT !.pc = "enable_sharing"]
           ELSE IF discoverable
           THEN [reconf EXCEPT !.pc = "disable_discover",
                               !.ret = "disable_sharing"]
           ELSE [reconf EXCEPT !.pc = "disable_sharing"]
    /\ UNCHANGED <<sharing, changed_queue, ui_queue>>
    /\ UNCHANGED <<share_discoverable, share_name, discoverable, manager_name,
                   server_name, mdns_callback, manager_pipe,
                   reload_done_event, manager_thread, tracker_paused>>
    /\ UNCHANGED <<sharing_frontend_volatile, share_media, twiddle,
                   toggle_widget, sharing_set_enable_ret>>
    /\ UNCHANGED <<catalogVars, pollVars, trackerVars, clientVars,
                   transcodeVars, discoveryVars, readerVars,
                   convertVars, runloopVars>>

\* Mutant of sharing_set_complete: func is not handed to the UI thread.
sharing_set_complete_dropped(value) == UNCHANGED ui_queue

\* sharing_set_complete(value): func is handed to the UI thread.
sharing_set_complete(value) == ui_queue' = Append(ui_queue, value)

\* enable_sharing() up to self.reload_done_event.wait(): without mDNS or
\* without a server (~ok) it returns None, and twiddle_sharing() clears
\* self.discoverable, calls sharing_set_complete() and returns; otherwise
\* the server thread is started.
enable_sharing(ok) ==
    /\ reconf.pc = "enable_sharing"
    /\ IF ok
       THEN /\ manager_thread' = "started"
            /\ goto("enable_sharing_wait")
            /\ UNCHANGED <<sharing, discoverable, ui_queue>>
       ELSE /\ Len(ui_queue) < MaxUiCalls
            /\ sharing' = FALSE
            /\ discoverable' = FALSE
            /\ sharing_set_complete(reconf.sharing)
            /\ reconf' = NoReconf
            /\ UNCHANGED manager_thread
    /\ UNCHANGED changed_queue
    /\ UNCHANGED <<share_discoverable, share_name, manager_name,
                   server_name, mdns_callback, manager_pipe,
                   reload_done_event, tracker_paused>>
    /\ UNCHANGED <<sharing_frontend_volatile, share_media, twiddle,
                   toggle_widget, sharing_set_enable_ret>>
    /\ UNCHANGED <<catalogVars, pollVars, trackerVars, clientVars,
                   transcodeVars, discoveryVars, readerVars,
                   convertVars, runloopVars>>

\* enable_sharing(), from the wait on: the event is cleared and
\* self.sharing is set.
enable_sharing_return ==
    /\ reconf.pc = "enable_sharing_wait"
    /\ reload_done_event
    /\ reload_done_event' = FALSE
    /\ sharing' = TRUE
    /\ goto("short_circuit")
    /\ UNCHANGED <<changed_queue, ui_queue>>
    /\ UNCHANGED <<share_discoverable, share_name, discoverable, manager_name,
                   server_name, mdns_callback, manager_pipe,
                   manager_thread, tracker_paused>>
    /\ UNCHANGED <<sharing_frontend_volatile, share_media, twiddle,
                   toggle_widget, sharing_set_enable_ret>>
    /\ UNCHANGED <<catalogVars, pollVars, trackerVars, clientVars,
                   transcodeVars, discoveryVars, readerVars,
                   convertVars, runloopVars>>

\* disable_discover() up to self.reload_done_event.wait().
disable_discover_send ==
    /\ reconf.pc = "disable_discover"
    /\ discoverable' = FALSE
    /\ manager_pipe' = Append(manager_pipe, CMD_NOP)
    /\ goto("disable_discover_wait")
    /\ UNCHANGED <<sharing, changed_queue, ui_queue>>
    /\ UNCHANGED <<share_discoverable, share_name, manager_name,
                   server_name, mdns_callback, reload_done_event,
                   manager_thread, tracker_paused>>
    /\ UNCHANGED <<sharing_frontend_volatile, share_media, twiddle,
                   toggle_widget, sharing_set_enable_ret>>
    /\ UNCHANGED <<catalogVars, pollVars, trackerVars, clientVars,
                   transcodeVars, discoveryVars, readerVars,
                   convertVars, runloopVars>>

\* disable_discover(), from the wait on: the event is cleared and
\* app.sharing_tracker.resume() is called.
disable_discover_return ==
    /\ reconf.pc = "disable_discover_wait"
    /\ reload_done_event
    /\ reload_done_event' = FALSE
    /\ tracker_paused' = FALSE
    /\ reconf' = [reconf EXCEPT !.pc = reconf.ret, !.ret = "idle"]
    /\ UNCHANGED <<sharing, changed_queue, ui_queue>>
    /\ UNCHANGED <<share_discoverable, share_name, discoverable, manager_name,
                   server_name, mdns_callback, manager_pipe,
                   manager_thread>>
    /\ UNCHANGED <<sharing_frontend_volatile, share_media, twiddle,
                   toggle_widget, sharing_set_enable_ret>>
    /\ UNCHANGED <<catalogVars, pollVars, trackerVars, clientVars,
                   transcodeVars, discoveryVars, readerVars,
                   convertVars, runloopVars>>

\* disable_sharing() up to self.reload_done_event.wait().
disable_sharing_send ==
    /\ reconf.pc = "disable_sharing"
    /\ sharing' = FALSE
    /\ manager_pipe' = Append(manager_pipe, CMD_QUIT)
    /\ goto("disable_sharing_wait")
    /\ UNCHANGED <<changed_queue, ui_queue>>
    /\ UNCHANGED <<share_discoverable, share_name, discoverable, manager_name,
                   server_name, mdns_callback, reload_done_event,
                   manager_thread, tracker_paused>>
    /\ UNCHANGED <<sharing_frontend_volatile, share_media, twiddle,
                   toggle_widget, sharing_set_enable_ret>>
    /\ UNCHANGED <<catalogVars, pollVars, trackerVars, clientVars,
                   transcodeVars, discoveryVars, readerVars,
                   convertVars, runloopVars>>

\* disable_sharing(), from the wait on.
disable_sharing_return ==
    /\ reconf.pc = "disable_sharing_wait"
    /\ reload_done_event
    /\ reload_done_event' = FALSE
    /\ goto("short_circuit")
    /\ UNCHANGED <<sharing, changed_queue, ui_queue>>
    /\ UNCHANGED <<share_discoverable, share_name, discoverable, manager_name,
                   server_name, mdns_callback, manager_pipe,
                   manager_thread, tracker_paused>>
    /\ UNCHANGED <<sharing_frontend_volatile, share_media, twiddle,
                   toggle_widget, sharing_set_enable_ret>>
    /\ UNCHANGED <<catalogVars, pollVars, trackerVars, clientVars,
                   transcodeVars, discoveryVars, readerVars,
                   convertVars, runloopVars>>

\* twiddle_sharing(), "if not self.sharing" and "if name_changed and
\* self.discoverable": with sharing off the reconfigure is complete; a
\* changed name of a published share starts with disable_discover().
twiddle_sharing_short_circuit ==
    /\ reconf.pc = "short_circuit"
    /\ reconf' =
           IF ~sharing THEN [reconf EXCEPT !.pc = "complete"]
           ELSE IF reconf.name_changed /\ discoverable
           THEN [reconf EXCEPT !.pc = "disable_discover", !.ret = "pause"]
           ELSE [reconf EXCEPT !.pc = "discover"]
    /\ UNCHANGED <<sharing, changed_queue, ui_queue>>
    /\ UNCHANGED <<share_discoverable, share_name, discoverable, manager_name,
                   server_name, mdns_callback, manager_pipe,
                   reload_done_event, manager_thread, tracker_paused>>
    /\ UNCHANGED <<sharing_frontend_volatile, share_media, twiddle,
                   toggle_widget, sharing_set_enable_ret>>
    /\ UNCHANGED <<catalogVars, pollVars, trackerVars, clientVars,
                   transcodeVars, discoveryVars, readerVars,
                   convertVars, runloopVars>>

\* Mutant of twiddle_sharing_pause: the tracker is not paused.
twiddle_sharing_pause_skipped ==
    /\ reconf.pc = "pause"
    /\ server_name' = reconf.name
    /\ goto("discover")
    /\ UNCHANGED <<sharing, changed_queue, ui_queue>>
    /\ UNCHANGED <<share_discoverable, share_name, discoverable, manager_name,
                   mdns_callback, manager_pipe, reload_done_event,
                   manager_thread, tracker_paused>>
    /\ UNCHANGED <<sharing_frontend_volatile, share_media, twiddle,
                   toggle_widget, sharing_set_enable_ret>>
    /\ UNCHANGED <<catalogVars, pollVars, trackerVars, clientVars,
                   transcodeVars, discoveryVars, readerVars,
                   convertVars, runloopVars>>

\* twiddle_sharing(), the name change after disable_discover():
\* app.sharing_tracker.pause(), which returns when the tracker's thread has
\* paused, and self.server.set_name(name).
twiddle_sharing_pause ==
    /\ reconf.pc = "pause"
    /\ tracker_paused' = TRUE
    /\ server_name' = reconf.name
    /\ goto("discover")
    /\ UNCHANGED <<sharing, changed_queue, ui_queue>>
    /\ UNCHANGED <<share_discoverable, share_name, discoverable, manager_name,
                   mdns_callback, manager_pipe, reload_done_event,
                   manager_thread>>
    /\ UNCHANGED <<sharing_frontend_volatile, share_media, twiddle,
                   toggle_widget, sharing_set_enable_ret>>
    /\ UNCHANGED <<catalogVars, pollVars, trackerVars, clientVars,
                   transcodeVars, discoveryVars, readerVars,
                   convertVars, runloopVars>>

\* twiddle_sharing(), "if discoverable != self.discoverable".
twiddle_sharing_discover ==
    /\ reconf.pc = "discover"
    /\ reconf' =
           IF reconf.discoverable = discoverable
           THEN [reconf EXCEPT !.pc = "complete"]
           ELSE IF reconf.discoverable
           THEN [reconf EXCEPT !.pc = "enable_discover"]
           ELSE [reconf EXCEPT !.pc = "disable_discover",
                               !.ret = "complete"]
    /\ UNCHANGED <<sharing, changed_queue, ui_queue>>
    /\ UNCHANGED <<share_discoverable, share_name, discoverable, manager_name,
                   server_name, mdns_callback, manager_pipe,
                   reload_done_event, manager_thread, tracker_paused>>
    /\ UNCHANGED <<sharing_frontend_volatile, share_media, twiddle,
                   toggle_widget, sharing_set_enable_ret>>
    /\ UNCHANGED <<catalogVars, pollVars, trackerVars, clientVars,
                   transcodeVars, discoveryVars, readerVars,
                   convertVars, runloopVars>>

\* enable_discover() up to self.reload_done_event.wait(): the name is read
\* from the config and registered, mdns_register_callback is yet to come.
enable_discover_send ==
    /\ reconf.pc = "enable_discover"
    /\ mdns_callback' = [name |-> share_name, state |-> "pending"]
    /\ discoverable' = TRUE
    /\ manager_pipe' = Append(manager_pipe, CMD_NOP)
    /\ goto("enable_discover_wait")
    /\ UNCHANGED <<sharing, changed_queue, ui_queue>>
    /\ UNCHANGED <<share_discoverable, share_name, manager_name,
                   server_name, reload_done_event, manager_thread,
                   tracker_paused>>
    /\ UNCHANGED <<sharing_frontend_volatile, share_media, twiddle,
                   toggle_widget, sharing_set_enable_ret>>
    /\ UNCHANGED <<catalogVars, pollVars, trackerVars, clientVars,
                   transcodeVars, discoveryVars, readerVars,
                   convertVars, runloopVars>>

\* enable_discover(), from the wait on.
enable_discover_return ==
    /\ reconf.pc = "enable_discover_wait"
    /\ reload_done_event
    /\ reload_done_event' = FALSE
    /\ goto("complete")
    /\ UNCHANGED <<sharing, changed_queue, ui_queue>>
    /\ UNCHANGED <<share_discoverable, share_name, discoverable, manager_name,
                   server_name, mdns_callback, manager_pipe,
                   manager_thread, tracker_paused>>
    /\ UNCHANGED <<sharing_frontend_volatile, share_media, twiddle,
                   toggle_widget, sharing_set_enable_ret>>
    /\ UNCHANGED <<catalogVars, pollVars, trackerVars, clientVars,
                   transcodeVars, discoveryVars, readerVars,
                   convertVars, runloopVars>>

\* twiddle_sharing(), its last statement (and the one of the short
\* circuit): self.sharing_set_complete(sharing).
twiddle_sharing_complete ==
    /\ reconf.pc = "complete"
    /\ Len(ui_queue) < MaxUiCalls
    /\ sharing_set_complete(reconf.sharing)
    /\ reconf' = NoReconf
    /\ UNCHANGED <<sharing, changed_queue>>
    /\ UNCHANGED <<share_discoverable, share_name, discoverable, manager_name,
                   server_name, mdns_callback, manager_pipe,
                   reload_done_event, manager_thread, tracker_paused>>
    /\ UNCHANGED <<sharing_frontend_volatile, share_media, twiddle,
                   toggle_widget, sharing_set_enable_ret>>
    /\ UNCHANGED <<catalogVars, pollVars, trackerVars, clientVars,
                   transcodeVars, discoveryVars, readerVars,
                   convertVars, runloopVars>>

\* server_thread(), its first statement: the caller is told that the thread
\* has started.
manager_thread_started ==
    /\ manager_thread = "started"
    /\ reload_done_event' = TRUE
    /\ manager_thread' = "select"
    /\ UNCHANGED <<sharing, changed_queue, ui_queue>>
    /\ UNCHANGED <<share_discoverable, share_name, discoverable, manager_name,
                   server_name, mdns_callback, manager_pipe,
                   tracker_paused, reconf>>
    /\ UNCHANGED <<sharing_frontend_volatile, share_media, twiddle,
                   toggle_widget, sharing_set_enable_ret>>
    /\ UNCHANGED <<catalogVars, pollVars, trackerVars, clientVars,
                   transcodeVars, discoveryVars, readerVars,
                   convertVars, runloopVars>>

\* Mutant of reload_done: the command is handled and not acknowledged.
reload_done_skipped == UNCHANGED reload_done_event

\* self.reload_done_event.set()
reload_done == reload_done_event' = TRUE

\* server_thread(), an iteration in which select() returns self.r: CMD_QUIT
\* ends the thread, CMD_NOP unregisters the service if discovery has been
\* disabled; both set the event.
manager_thread_command ==
    /\ manager_thread = "select"
    /\ manager_pipe # <<>>
    /\ manager_pipe' = Tail(manager_pipe)
    /\ IF Head(manager_pipe) = CMD_QUIT
       THEN /\ manager_thread' = "none"
            /\ UNCHANGED mdns_callback
       ELSE /\ mdns_callback' =
                   IF ~discoverable /\ mdns_callback # no_mdns_callback
                   THEN no_mdns_callback ELSE mdns_callback
            /\ UNCHANGED manager_thread
    /\ reload_done
    /\ UNCHANGED <<sharing, changed_queue, ui_queue>>
    /\ UNCHANGED <<share_discoverable, share_name, discoverable, manager_name,
                   server_name, tracker_paused, reconf>>
    /\ UNCHANGED <<sharing_frontend_volatile, share_media, twiddle,
                   toggle_widget, sharing_set_enable_ret>>
    /\ UNCHANGED <<catalogVars, pollVars, trackerVars, clientVars,
                   transcodeVars, discoveryVars, readerVars,
                   convertVars, runloopVars>>

\* server_thread(), an iteration in which select() returns a ref of the
\* registration: self.mdns_callback(i) ends in mdns_register_callback(name),
\* which stores the name and calls app.sharing_tracker.resume().
mdns_register_callback ==
    /\ manager_thread = "select"
    /\ discoverable
    /\ mdns_callback.state = "pending"
    /\ mdns_callback' = [mdns_callback EXCEPT !.state = "registered"]
    /\ manager_name' = mdns_callback.name
    /\ tracker_paused' = FALSE
    /\ UNCHANGED <<sharing, changed_queue, ui_queue>>
    /\ UNCHANGED <<share_discoverable, share_name, discoverable,
                   server_name, manager_pipe, reload_done_event,
                   manager_thread, reconf>>
    /\ UNCHANGED <<sharing_frontend_volatile, share_media, twiddle,
                   toggle_widget, sharing_set_enable_ret>>
    /\ UNCHANGED <<catalogVars, pollVars, trackerVars, clientVars,
                   transcodeVars, discoveryVars, readerVars,
                   convertVars, runloopVars>>

(***************************************************************************)
(* SharingTracker.server_thread(), the mDNS browser thread, and the        *)
(* commands pause(), resume() and stop_tracking() send it.  An iteration   *)
(* of a loop of the thread, from the select() to the handling of what it   *)
(* returned, is one step: only the thread itself writes self.paused.       *)
(***************************************************************************)
CMD_PAUSE == "paus"
CMD_RESUME == "resm"

\* resume(), from SharingManager.__init__ or mdns_register_callback.
resume ==
    /\ Len(cmd_pipe) < MaxCmds
    /\ cmd_pipe' = Append(cmd_pipe, CMD_RESUME)
    /\ UNCHANGED <<paused, server_thread_pc, callback, event, pause_pc,
                   browse_ready, pause_processed, quit_sent>>
    /\ UNCHANGED <<catalogVars, pollVars, trackerVars, clientVars,
                   transcodeVars, managerVars, readerVars,
                   convertVars, runloopVars>>

\* disable_discover(), which twiddle_sharing() calls before pause(): it ends
\* in app.sharing_tracker.resume().
disable_discover ==
    /\ pause_pc = "idle"
    /\ Len(cmd_pipe) + 1 < MaxCmds
    /\ cmd_pipe' = Append(cmd_pipe, CMD_RESUME)
    /\ pause_pc' = "discover_disabled"
    /\ UNCHANGED <<paused, server_thread_pc, callback, event, browse_ready,
                   pause_processed, quit_sent>>
    /\ UNCHANGED <<catalogVars, pollVars, trackerVars, clientVars,
                   transcodeVars, managerVars, readerVars,
                   convertVars, runloopVars>>

\* pause(), up to self.event.wait().
pause ==
    /\ pause_pc = "discover_disabled"
    /\ cmd_pipe' = Append(cmd_pipe, CMD_PAUSE)
    /\ pause_pc' = "wait"
    /\ pause_processed' = FALSE
    /\ UNCHANGED <<paused, server_thread_pc, callback, event, browse_ready,
                   quit_sent>>
    /\ UNCHANGED <<catalogVars, pollVars, trackerVars, clientVars,
                   transcodeVars, managerVars, readerVars,
                   convertVars, runloopVars>>

\* pause(): self.event.wait() returns, self.event.clear().
pause_return ==
    /\ pause_pc = "wait"
    /\ event
    /\ event' = FALSE
    /\ pause_pc' = "idle"
    /\ UNCHANGED <<paused, cmd_pipe, server_thread_pc, callback,
                   browse_ready, pause_processed, quit_sent>>
    /\ UNCHANGED <<catalogVars, pollVars, trackerVars, clientVars,
                   transcodeVars, managerVars, readerVars,
                   convertVars, runloopVars>>

\* stop_tracking()
stop_tracking_thread ==
    /\ ~quit_sent
    /\ Len(cmd_pipe) < MaxCmds
    /\ cmd_pipe' = Append(cmd_pipe, CMD_QUIT)
    /\ quit_sent' = TRUE
    /\ UNCHANGED <<paused, server_thread_pc, callback, event, pause_pc,
                   browse_ready, pause_processed>>
    /\ UNCHANGED <<catalogVars, pollVars, trackerVars, clientVars,
                   transcodeVars, managerVars, readerVars,
                   convertVars, runloopVars>>

\* The mDNS daemon has something for the browser.
mdns_event ==
    /\ ~browse_ready
    /\ browse_ready' = TRUE
    /\ UNCHANGED <<paused, cmd_pipe, server_thread_pc, callback, event,
                   pause_pc, pause_processed, quit_sent>>
    /\ UNCHANGED <<catalogVars, pollVars, trackerVars, clientVars,
                   transcodeVars, managerVars, readerVars,
                   convertVars, runloopVars>>

\* server_thread(), the startup loop: the thread waits for CMD_RESUME; then
\* it browses if mdns is present.
server_thread_startup(mdns_present) ==
    /\ server_thread_pc = "startup"
    /\ cmd_pipe # <<>>
    /\ cmd_pipe' = Tail(cmd_pipe)
    /\ IF Head(cmd_pipe) = CMD_RESUME
       THEN /\ paused' = FALSE
            /\ server_thread_pc' = "browse"
            /\ callback' = IF mdns_present THEN "mdns_browse" ELSE None
       ELSE IF Head(cmd_pipe) = CMD_QUIT
       THEN /\ server_thread_pc' = "return"
            /\ UNCHANGED <<paused, callback>>
       ELSE /\ server_thread_pc' = "ValueError"
            /\ UNCHANGED <<paused, callback>>
    /\ UNCHANGED <<event, pause_pc, browse_ready, pause_processed,
                   quit_sent>>
    /\ UNCHANGED <<catalogVars, pollVars, trackerVars, clientVars,
                   transcodeVars, managerVars, readerVars,
                   convertVars, runloopVars>>

\* Mutant of refs: the browse socket is selected on while paused.
refs_while_paused == callback # None

\* refs of an iteration of the browse loop: the browse socket is selected on.
refs == callback # None /\ ~paused

\* server_thread(), an iteration of the browse loop: select() returns when
\* self.r or a socket of refs is readable; a command on self.r is handled
\* and ends the iteration, otherwise the browse callback is dispatched.
server_thread_select ==
    /\ server_thread_pc = "browse"
    /\ cmd_pipe # <<>> \/ (refs /\ browse_ready)
    /\ IF cmd_pipe # <<>>
       THEN /\ cmd_pipe' = Tail(cmd_pipe)
            /\ UNCHANGED browse_ready
            /\ IF Head(cmd_pipe) = CMD_QUIT
               THEN /\ server_thread_pc' = "return"
                    /\ UNCHANGED <<paused, event, pause_processed>>
               ELSE IF Head(cmd_pipe) = CMD_PAUSE
               THEN /\ paused' = TRUE
                    /\ event' = TRUE
                    /\ pause_processed' = TRUE
                    /\ UNCHANGED server_thread_pc
               ELSE /\ paused' = FALSE
                    /\ UNCHANGED <<server_thread_pc, event, pause_processed>>
       ELSE /\ browse_ready' = FALSE
            /\ UNCHANGED <<cmd_pipe, paused, server_thread_pc, event,
                           pause_processed>>
    /\ UNCHANGED <<callback, pause_pc, quit_sent>>
    /\ UNCHANGED <<catalogVars, pollVars, trackerVars, clientVars,
                   transcodeVars, managerVars, readerVars,
                   convertVars, runloopVars>>

(***************************************************************************)
(* SharingManagerBackend.get_items(): the catalog as a DAAP client is to   *)
(* see it, under item_lock.                                                *)
(***************************************************************************)
\* org.participatoryculture.miro.itemkind as make_item_dict stores it: None
\* (0 here), or a bit of the mask.
MIRO_ITEMKIND_MOVIE == 1
MIRO_ITEMKIND_PODCAST == 2
ItemKinds == {0, MIRO_ITEMKIND_MOVIE, MIRO_ITEMKIND_PODCAST}
\* com.apple.itunes.mediakind as make_item_dict stores it: audio or video,
\* the values of SHARE_AUDIO and SHARE_VIDEO.
MediaKinds == {SHARE_AUDIO, SHARE_VIDEO}

\* ik and (ik & MIRO_ITEMKIND_PODCAST)
is_podcast(ik) == ik # 0 /\ (ik \div MIRO_ITEMKIND_PODCAST) % 2 = 1

\* Mutant of shared_item: podcast items are shared with their mediakind.
shared_item_any_podcast(kinds, types) == kinds.mk \in Range(types)

\* The test of get_items on a valid record: its mediakind is shared, and it
\* is no podcast item or feeds are shared.
shared_item(kinds, types) ==
    /\ kinds.mk \in Range(types)
    /\ \/ ~is_podcast(kinds.ik)
       \/ is_podcast(kinds.ik) /\ SHARE_FEED \in Range(types)

\* get_items(playlist_id): every record of the catalog, or a tombstone made
\* now in its place; with a playlist id the items outside the playlist are
\* tombstones too, and a playlist that is not known gives an empty dict.
get_items(playlist_id) ==
    IF playlist_id = None
    THEN [k \in DOMAIN daapitems |->
             IF \/ ~daapitems[k].valid
                \/ shared_item(item_kinds[k], share_types)
             THEN daapitems[k]
             ELSE deleted_item(revision)]
    ELSE IF playlist_id \in DOMAIN playlist_item_map
    THEN [x \in DOMAIN daapitems |->
             IF /\ x \in Range(playlist_item_map[playlist_id])
                /\ \/ ~daapitems[x].valid
                   \/ shared_item(item_kinds[x], share_types)
             THEN daapitems[x]
             ELSE deleted_item(revision)]
    ELSE EmptyDict

\* A DAAP request thread calls get_items(playlist_id).
get_items_call(playlist_id) ==
    /\ items_returned' = get_items(playlist_id)
    /\ UNCHANGED item_kinds
    /\ UNCHANGED <<catalogVars, pollVars, trackerVars, clientVars,
                   transcodeVars, managerVars, discoveryVars, convertVars,
                   runloopVars>>

(***************************************************************************)
(* One item from the library of the server to the SharingItem of a client: *)
(* make_item_dict() builds the DAAP record, convert_raw_sharing_item()     *)
(* builds the attributes of the SharingItem from it.                       *)
(***************************************************************************)
DURATION_SCALE == 1000
MIRO_ITEMKIND_SHOW == 4
MIRO_ITEMKIND_CLIP == 8
\* None where the other values of the attribute are integers.
NoneInt == -2
MaxDuration == 2
MaxYear == 1

miro_itemkind_mapping ==
    [k \in {"movie", "show", "clip", "podcast"} |->
        CASE k = "movie" -> MIRO_ITEMKIND_MOVIE
          [] k = "show" -> MIRO_ITEMKIND_SHOW
          [] k = "clip" -> MIRO_ITEMKIND_CLIP
          [] k = "podcast" -> MIRO_ITEMKIND_PODCAST]

miro_itemkind_rmapping ==
    [k \in {MIRO_ITEMKIND_MOVIE, MIRO_ITEMKIND_SHOW, MIRO_ITEMKIND_CLIP,
            MIRO_ITEMKIND_PODCAST} |->
        CASE k = MIRO_ITEMKIND_MOVIE -> "movie"
          [] k = MIRO_ITEMKIND_SHOW -> "show"
          [] k = MIRO_ITEMKIND_CLIP -> "clip"
          [] k = MIRO_ITEMKIND_PODCAST -> "podcast"]

\* libdaap's media kinds: SHARE_AUDIO and SHARE_VIDEO are defined as them.
DAAP_MEDIAKIND_AUDIO == SHARE_AUDIO
DAAP_MEDIAKIND_VIDEO == SHARE_VIDEO

\* A unicode object, its utf-8 encoding as a str, and back.
unicode(s) == [unicode |-> s]
encode(u) == [str |-> u.unicode]
decode(s) == [unicode |-> s.str]

\* filetypes.VIDEO_EXTENSIONS + filetypes.AUDIO_EXTENSIONS, two of them.
supported_filetypes == {".mp3", ".mp4"}
\* enclosure[1:]
strip_dot(enclosure) ==
    CASE enclosure = ".mp3" -> "mp3"
      [] enclosure = ".mp4" -> "mp4"
      [] enclosure = ".xyz" -> "xyz"

\* The items of a library: the attributes the DAAP mapping reads, the
\* extension of video_path and whether item_from_podcast(item) holds.
\* kind and file_type are unicode objects that compare equal to their str.
LocalItems ==
    [name : {unicode("a")},
     duration : {NoneInt, -1} \cup (0..MaxDuration),
     year : {NoneInt, -1} \cup (0..MaxYear),
     kind : {None, "movie", "show", "clip", "podcast"},
     file_type : {"audio", "video", "other"},
     file_format : {None, ".mp3", ".xyz"},
     path_ext : {".mp4", ".xyz"},
     from_podcast : BOOLEAN]

\* The attribute loop of make_item_dict for one integer attribute: -1
\* becomes 0.
fixup(value) == IF value = -1 THEN 0 ELSE value

\* daap.songtime of the record: milliseconds, 0 for no duration.
songtime(duration) ==
    IF fixup(duration) # NoneInt /\ fixup(duration) # 0
    THEN fixup(duration) * DURATION_SCALE
    ELSE 0

\* org.participatoryculture.miro.itemkind of the record: the podcast bit for
\* an item of a feed, the bit of the item's kind otherwise, None for none.
itemkind(item) ==
    IF item.from_podcast THEN MIRO_ITEMKIND_PODCAST
    ELSE IF item.kind # None THEN miro_itemkind_mapping[item.kind]
    ELSE NoneInt

\* The enclosure of the record: the format of the item, the extension of its
\* path when the format is not a supported one and the extension is.
enclosure_of(item) ==
    IF item.file_format \notin supported_filetypes
       /\ item.path_ext \in supported_filetypes
    THEN item.path_ext
    ELSE item.file_format

\* daap.songformat of the record.
songformat(item) ==
    IF enclosure_of(item) = None
    THEN IF item.file_type = "video" THEN "mp4" ELSE "mp3"
    ELSE strip_dot(enclosure_of(item))

\* The itemprop that the loop of make_item_dict builds for one item.
itemprop_of(item) ==
    [itemname |-> encode(item.name),
     songtime |-> songtime(item.duration),
     songyear |-> fixup(item.year),
     itemkind |-> itemkind(item),
     mediakind |-> IF item.file_type = "video"
                   THEN DAAP_MEDIAKIND_VIDEO
                   ELSE DAAP_MEDIAKIND_AUDIO,
     songformat |-> songformat(item),
     revision |-> revision,
     valid |-> TRUE]

\* The attributes of the SharingItem: the fields of the DAAP mapping under
\* their local names, the strings decoded, the kind and the file type named.
convert_raw_sharing_item(rawitem) ==
    [title |-> decode(rawitem.itemname),
     duration |-> rawitem.songtime,
     year |-> rawitem.songyear,
     kind |-> IF rawitem.itemkind \in DOMAIN miro_itemkind_rmapping
              THEN miro_itemkind_rmapping[rawitem.itemkind]
              ELSE None,
     file_type |-> IF rawitem.mediakind = DAAP_MEDIAKIND_VIDEO
                   THEN "video"
                   ELSE "audio",
     file_format |-> rawitem.songformat]

\* The server stores the record of the item.
export_item ==
    /\ convert_pc = "local"
    /\ itemprop' = itemprop_of(local_item)
    /\ convert_pc' = "exported"
    /\ UNCHANGED <<local_item, item_data>>
    /\ UNCHANGED <<catalogVars, pollVars, trackerVars, clientVars,
                   transcodeVars, managerVars, discoveryVars, readerVars,
                   runloopVars>>

\* A client that has fetched the record makes the SharingItem's attributes.
import_item ==
    /\ convert_pc = "exported"
    /\ item_data' = convert_raw_sharing_item(itemprop)
    /\ convert_pc' = "imported"
    /\ UNCHANGED <<local_item, itemprop>>
    /\ UNCHANGED <<catalogVars, pollVars, trackerVars, clientVars,
                   transcodeVars, managerVars, discoveryVars, readerVars,
                   runloopVars>>

(***************************************************************************)
(* SharingItemTrackerImpl.run and runloop with the rounds numbered: round  *)
(* 1 is client_connect, the later ones are client_update.  run() calls     *)
(* func(), hands the success or the failure callback to the eventloop with *)
(* add_idle, and returns to runloop, which issues the next round.          *)
(***************************************************************************)
MaxRounds == 6
MaxQueued == 4

\* The callback run() hands over for round k.
callback_of(k, succeeded) ==
    [round |-> k,
     func |-> IF k = 1
              THEN IF succeeded THEN "client_connect_callback"
                   ELSE "client_connect_error_callback"
              ELSE IF succeeded THEN "client_update_callback"
                   ELSE "client_update_error_callback"]

\* runloop calls run_client_connect() or run_client_update(), and run()
\* calls func(): the round is issued.
run_func ==
    /\ runloop_pc = "runloop"
    /\ rpc_round < MaxRounds
    /\ rpc_round' = rpc_round + 1
    /\ runloop_pc' = "func"
    /\ UNCHANGED <<idle_queue, callbacks_run>>
    /\ UNCHANGED <<catalogVars, pollVars, trackerVars, clientVars,
                   transcodeVars, managerVars, discoveryVars, readerVars,
                   convertVars>>

\* func() returns its result or raises: the round is complete.
func_returns(succeeded) ==
    /\ runloop_pc = "func"
    /\ runloop_pc' = IF succeeded THEN "succeeded" ELSE "failed"
    /\ UNCHANGED <<rpc_round, idle_queue, callbacks_run>>
    /\ UNCHANGED <<catalogVars, pollVars, trackerVars, clientVars,
                   transcodeVars, managerVars, discoveryVars, readerVars,
                   convertVars>>

\* Mutant of run_add_idle: the callback of a round that succeeded is not
\* handed over before runloop goes on.
run_add_idle_late(supports_update) ==
    /\ runloop_pc \in {"succeeded", "failed"}
    /\ Len(idle_queue) < MaxQueued
    /\ idle_queue' = IF runloop_pc = "succeeded" THEN idle_queue
                     ELSE Append(idle_queue, callback_of(rpc_round, FALSE))
    /\ runloop_pc' = IF /\ runloop_pc = "succeeded"
                        /\ rpc_round > 1 \/ supports_update
                     THEN "runloop" ELSE "return"
    /\ UNCHANGED <<rpc_round, callbacks_run>>
    /\ UNCHANGED <<catalogVars, pollVars, trackerVars, clientVars,
                   transcodeVars, managerVars, discoveryVars, readerVars,
                   convertVars>>

\* The rest of run(): eventloop.add_idle(func, name, args), return
\* succeeded; and runloop's test of it.  After the connect, runloop goes on
\* only if the server supports update.
run_add_idle(supports_update) ==
    /\ runloop_pc \in {"succeeded", "failed"}
    /\ Len(idle_queue) < MaxQueued
    /\ idle_queue' = Append(idle_queue,
                            callback_of(rpc_round, runloop_pc = "succeeded"))
    /\ runloop_pc' = IF /\ runloop_pc = "succeeded"
                        /\ rpc_round > 1 \/ supports_update
                     THEN "runloop" ELSE "return"
    /\ UNCHANGED <<rpc_round, callbacks_run>>
    /\ UNCHANGED <<catalogVars, pollVars, trackerVars, clientVars,
                   transcodeVars, managerVars, discoveryVars, readerVars,
                   convertVars>>

\* The eventloop runs the idle call it was handed first.
eventloop_idle ==
    /\ idle_queue # <<>>
    /\ callbacks_run' = Append(callbacks_run, Head(idle_queue))
    /\ idle_queue' = Tail(idle_queue)
    /\ UNCHANGED <<runloop_pc, rpc_round>>
    /\ UNCHANGED <<catalogVars, pollVars, trackerVars, clientVars,
                   transcodeVars, managerVars, discoveryVars, readerVars,
                   convertVars>>

(***************************************************************************)
(* Initial state: SharingManagerBackend.__init__ has run, no session has   *)
(* called get_revision.  The config holds any values.                      *)
(***************************************************************************)
InitCatalog ==
    /\ revision = 1
    /\ directed = Unset
    /\ config \in [ShareKeys -> BOOLEAN]
    /\ share_types = ShareTypesOf(config)
    /\ daapitems = EmptyDict
    /\ daap_playlists = EmptyDict
    /\ playlist_item_map = EmptyDict
    /\ deleted_item_map = EmptyDict
    /\ started = FALSE
    /\ max_valid_rev = [i \in Items |-> 0]
    /\ data_rev = 0
    /\ types_rev = 0

InitPoll ==
    /\ pc = [s \in Sessions |-> "idle"]
    /\ arg_revision = [s \in Sessions |-> 0]
    /\ old_revision = [s \in Sessions |-> 0]
    /\ result = [s \in Sessions |-> 0]
    /\ watchers = [s \in Sessions |-> 0]
    /\ request_ready = [s \in Sessions |-> FALSE]

\* SharingTracker.__init__ has run and no Share exists; the support directory
\* may hold database files of a previous run.
InitTracker ==
    /\ name_to_id_map = EmptyDict
    /\ shares = EmptyDict
    /\ available_shares = EmptyDict
    /\ trackers = EmptyDict
    /\ used_db_paths = {}
    /\ db_files \in SUBSET StaleSlots
    /\ testconnects = {}
    /\ next_uuid = 0
    /\ frontend = <<>>

\* The catalog and the long poll start with an empty support directory,
\* which they do not touch.
\* No SharingItemTrackerImpl has been made; the attributes are those its
\* __init__ sets.
InitClient ==
    /\ client = None
    /\ thread_pc = "none"
    /\ idle_calls = <<>>
    /\ current_item_ids = {}
    /\ current_playlist_ids = {}
    /\ playlist_data = EmptyDict
    /\ playlist_items = EmptyDict
    /\ sharing_items = {}
    /\ client_playlist_item_map = EmptyDict
    /\ fake_playlists = [podcast |-> {}, playlist |-> {}]
    /\ raised = None
    /\ asserted = EmptyDict
    /\ received = {}
    /\ merged = [items |-> {}, deleted_items |-> <<>>]
    /\ disconnected = FALSE
    /\ playlist_tabs = {}

\* SharingManagerBackend.__init__: no transcode job, no call in progress.
InitTranscode ==
    /\ transcode = EmptyDict
    /\ jobs = <<>>
    /\ in_shutdown = FALSE
    /\ calls = [t \in Threads |-> IdleCall]
    /\ transcode_lock = free
    /\ shutdown_keys = <<>>
    /\ shutdown_raised = None

\* SharingManager.__init__ has run with sharing switched off in the config:
\* twiddle_sharing() had nothing to enable, its func has run on the UI
\* thread, the frontend has registered its callbacks.
InitManager ==
    /\ sharing_frontend_volatile = FALSE
    /\ share_media = FALSE
    /\ sharing = FALSE
    /\ changed_queue = <<>>
    /\ twiddle = NoTwiddle
    /\ ui_queue = <<>>
    /\ toggle_widget = "enabled"
    /\ sharing_set_enable_ret = None
    /\ share_discoverable = FALSE
    /\ share_name = "a"
    /\ discoverable = FALSE
    /\ manager_name = ""
    /\ server_name = ""
    /\ mdns_callback = no_mdns_callback
    /\ manager_pipe = <<>>
    /\ reload_done_event = FALSE
    /\ manager_thread = "none"
    /\ tracker_paused = FALSE
    /\ reconf = NoReconf

\* SharingTracker.__init__ and start_tracking() have run: the thread is in
\* its startup loop.
InitDiscovery ==
    /\ paused = TRUE
    /\ cmd_pipe = <<>>
    /\ server_thread_pc = "startup"
    /\ callback = None
    /\ event = FALSE
    /\ pause_pc = "idle"
    /\ browse_ready = FALSE
    /\ pause_processed = FALSE
    /\ quit_sent = FALSE

\* No get_items() call has returned.  The library holds audio items that
\* come from no feed.
InitReader ==
    /\ item_kinds = [i \in Items |-> [mk |-> SHARE_AUDIO, ik |-> 0]]
    /\ items_returned = EmptyDict

\* An audio item with no duration and no kind, not yet exported.
InitConvert ==
    /\ local_item = [name |-> unicode("a"), duration |-> NoneInt,
                     year |-> NoneInt, kind |-> None, file_type |-> "audio",
                     file_format |-> None, path_ext |-> ".xyz",
                     from_podcast |-> FALSE]
    /\ itemprop = None
    /\ item_data = None
    /\ convert_pc = "local"

\* start_thread() has started runloop; no round is issued yet.
InitRunloop ==
    /\ runloop_pc = "runloop"
    /\ rpc_round = 0
    /\ idle_queue = <<>>
    /\ callbacks_run = <<>>

InitOther ==
    /\ InitManager /\ InitDiscovery /\ InitReader /\ InitConvert
    /\ InitRunloop

Init ==
    /\ InitCatalog /\ InitPoll /\ InitTracker /\ InitClient /\ InitTranscode
    /\ InitOther
    /\ db_files = {}

\* The same with every kind shared, for the long-poll specification.
InitLongPoll == Init /\ config = [k \in ShareKeys |-> TRUE]

\* The membership lists a playlist can have in the database at start-up.
MemberLists == {SetToSeq(S) : S \in {T \in SUBSET Items :
                                        Cardinality(T) <= MaxMembers}}

\* The playlists of kind typ.
OfType(typ) == IF typ = "feed" THEN Feeds ELSE Playlists \ Feeds

\* The playlists whose record is a tombstone.
Tombstoned == {p \in DOMAIN daap_playlists : ~daap_playlists[p].valid}

\* The events the host's item, playlist and feed trackers deliver.
Ingest ==
    \/ \E ids \in SUBSET Playlists : \E members \in [ids -> MemberLists] :
           populate_playlists(ids, members)
    \/ \E id \in Playlists \cup {None} : \E ids \in SUBSET Items :
           handle_item_list(id, ids)
    \/ \E id \in Playlists \cup {None} :
       \E added \in SUBSET Items : \E changed \in SUBSET (Items \ added) :
       \E removed \in SUBSET (Items \ (added \cup changed)) :
           handle_items_changed(id, added, changed, removed)
    \/ \E typ \in {"playlist", "feed"} : \E ids \in SUBSET OfType(typ) :
           handle_playlist_added(ids, typ)
    \/ \E typ \in {"playlist", "feed"} :
       \E ids \in SUBSET (OfType(typ) \ Tombstoned) :
           handle_playlist_changed(ids, typ)
    \/ \E typ \in {"playlist", "feed"} : \E ids \in SUBSET OfType(typ) :
           handle_playlist_removed(ids)

ConfigChange ==
    \E key \in ShareKeys \cup OtherKeys : \E value \in BOOLEAN :
        on_config_changed(key, value)

NextCatalog == Ingest \/ ConfigChange

SpecCatalog == Init /\ [][NextCatalog]_vars


(***************************************************************************)
(* The long-poll specification: the get_revision callers, their watchers,  *)
(* and the handlers that bump the revision, delivered here with payloads   *)
(* over the first item only and no playlist (a bump does not depend on     *)
(* the payload).                                                           *)
(***************************************************************************)
PollItems == {i \in Items : i = 1}

PollIngest ==
    \/ populate_playlists({}, EmptyDict)
    \/ \E ids \in SUBSET PollItems : handle_item_list(None, ids)
    \/ \E added \in SUBSET PollItems :
       \E removed \in SUBSET (PollItems \ added) :
           handle_items_changed(None, added, {}, removed)
    \/ \E typ \in {"playlist", "feed"} : handle_playlist_added({}, typ)
    \/ \E typ \in {"playlist", "feed"} : handle_playlist_changed({}, typ)
    \/ handle_playlist_removed({})
    \/ \E value \in BOOLEAN : on_config_changed(SHARE_FEED, value)

\* The revisions a client passes: the one it was last told, or an older one.
PollCalls ==
    \E s \in Sessions : \E n \in 1..MaxRevision :
        /\ started
        /\ n <= revision
        /\ get_revision(s, n)

NextLongPoll ==
    \/ PollIngest
    \/ PollCalls
    \/ \E s \in Sessions : get_revision_wakeup(s)
    \/ \E s \in Sessions : request_readable(s)
    \/ \E s \in Sessions : watcher(s)

SpecLongPoll == InitLongPoll /\ [][NextLongPoll]_vars

\* The start of the tracker: every kind shared, any stale files.
InitSharing ==
    /\ InitCatalog /\ InitPoll /\ InitTracker /\ InitClient /\ InitTranscode
    /\ InitOther
    /\ config = [k \in ShareKeys |-> TRUE]

\* The events of the mDNS browser, the test-connect threads, the share
\* trackers and the frontend.
NextTracker ==
    \/ \E added \in BOOLEAN, fullname \in FullNames, endpoint \in Endpoints :
           mdns_callback_backend(added, fullname, endpoint)
    \/ \E t \in testconnects : try_to_add_success(t)
    \/ \E t \in testconnects : try_to_add_failure(t)
    \/ \E share_id \in ShareIds : track_share(share_id)
    \/ \E share_id \in ShareIds : stop_tracking_share(share_id)
    \/ \E share_id \in ShareIds : client_connect_callback(share_id)
    \/ \E share_id \in ShareIds : client_connect_error_callback(share_id)

SpecTracker == InitSharing /\ [][NextTracker]_vars

\* The tracker of a process that has seen shares come and go: each Share
\* that was constructed has left its path in Share._used_db_paths, which
\* destroy() does not release, and one candidate path is left.
InitChurned ==
    /\ InitCatalog /\ InitPoll /\ InitClient /\ InitTranscode /\ InitOther
    /\ config = [k \in ShareKeys |-> TRUE]
    /\ name_to_id_map = EmptyDict
    /\ shares = EmptyDict
    /\ available_shares = EmptyDict
    /\ trackers = EmptyDict
    /\ used_db_paths = 0..(NumDbSlots - 2)
    /\ db_files = {}
    /\ testconnects = {}
    /\ next_uuid = 0
    /\ frontend = <<>>

SpecChurn == InitChurned /\ [][NextTracker]_vars

\* The start of the client: the catalog side with every kind shared, an empty
\* support directory.
InitClientSession == Init /\ config = [k \in ShareKeys |-> TRUE]

\* One share is announced and tested; the user connects to it and
\* disconnects; the tracker's thread and the eventloop run.
NextClient ==
    \/ mdns_callback_backend(TRUE, "A", ClientEndpoint)
    \/ \E t \in testconnects : try_to_add_success(t)
    \/ start_tracking(ClientShare)
    \/ make_client
    \/ \E ok \in BOOLEAN, supports_update \in BOOLEAN :
           client_connect(ok, supports_update)
    \/ \E ok \in BOOLEAN : client_update(ok)
    \/ \E res \in ClientUpdateResults :
           \E remove_raises \in RemoveOutcomes(res) :
               idle_client_connect_callback(res, remove_raises)
    \/ \E res \in ClientUpdateResults :
           \E remove_raises \in RemoveOutcomes(res) :
               idle_client_update_callback(res, remove_raises)
    \/ \E update \in BOOLEAN : idle_client_error_callback(update)
    \/ idle_client_disconnect_callback
    \/ eject(ClientShare)

SpecClient == InitClientSession /\ [][NextClient]_vars

\* The tracker of a share whose items stay and whose playlists come and go.
NextPlaylists ==
    \/ mdns_callback_backend(TRUE, "A", ClientEndpoint)
    \/ \E t \in testconnects : try_to_add_success(t)
    \/ start_tracking(ClientShare)
    \/ make_client
    \/ \E ok \in BOOLEAN, supports_update \in BOOLEAN :
           client_connect(ok, supports_update)
    \/ \E ok \in BOOLEAN : client_update(ok)
    \/ \E res \in PlaylistUpdateResults :
           idle_client_connect_callback(res, FALSE)
    \/ \E res \in PlaylistUpdateResults :
           idle_client_update_callback(res, FALSE)
    \/ \E update \in BOOLEAN : idle_client_error_callback(update)
    \/ idle_client_disconnect_callback
    \/ eject(ClientShare)

SpecPlaylists == InitClientSession /\ [][NextPlaylists]_vars

\* A statement of the tracker's thread: runloop.
ClientThreadStep ==
    \/ make_client
    \/ \E ok \in BOOLEAN, supports_update \in BOOLEAN :
           client_connect(ok, supports_update)
    \/ \E ok \in BOOLEAN : client_update(ok)

\* The eventloop runs the next callback handed over by add_idle or
\* call_in_thread.
EventloopStep ==
    \/ \E res \in PlaylistUpdateResults :
           idle_client_connect_callback(res, FALSE)
    \/ \E res \in PlaylistUpdateResults :
           idle_client_update_callback(res, FALSE)
    \/ \E update \in BOOLEAN : idle_client_error_callback(update)
    \/ idle_client_disconnect_callback

\* The tracker's thread runs when it can: self.client.update() returns or
\* raises, at the latest once the connection is closed; the eventloop runs
\* the callbacks it is handed.
SpecDisconnectLive ==
    /\ InitClientSession /\ [][NextPlaylists]_vars
    /\ WF_vars(ClientThreadStep)
    /\ WF_vars(EventloopStep)

\* The server after start_tracking() with no playlist (populate_playlists)
\* and the library's first item list (handle_item_list): two revision bumps,
\* every item valid.  Request threads call get_file, sessions end, the
\* server is shut down.
InitServer ==
    /\ revision = 3
    /\ directed = None
    /\ config = [k \in ShareKeys |-> TRUE]
    /\ share_types = ShareTypesOf(config)
    /\ daapitems = [i \in Items |-> ItemRecord(revision)]
    /\ daap_playlists = EmptyDict
    /\ playlist_item_map = EmptyDict
    /\ deleted_item_map = EmptyDict
    /\ started = TRUE
    /\ max_valid_rev = [i \in Items |-> revision]
    /\ data_rev = revision
    /\ types_rev = 0
    /\ InitPoll /\ InitTracker /\ InitClient /\ InitTranscode /\ InitOther
    /\ db_files = {}

NextTranscode ==
    \/ \E t \in Threads, itemid \in Items \cup {NumItems + 1},
          generation \in Generations, ext \in TranscodeExts,
          session \in TranscodeSessions,
          chunk \in Chunks \cup {NoChunk} :
           get_file(t, itemid, generation, ext, session, chunk)
    \/ \E t \in Threads, itemid \in Items \cup {NumItems + 1},
          ext \in Exts \ TranscodeExts, session \in TranscodeSessions :
           get_file(t, itemid, 1, ext, session, NoChunk)
    \/ \E t \in Threads : old_shutdown(t)
    \/ \E t \in Threads : start_transcode(t)
    \/ \E t \in Threads : serve(t)
    \/ \E session \in TranscodeSessions : finished_callback(session)
    \/ shutdown

SpecTranscode == InitServer /\ [][NextTranscode]_vars

\* The request threads with requests of one generation and no chunk, the
\* end of sessions, and shutdown() step by step.
NextTranscodeLock ==
    \/ \E t \in Threads, itemid \in Items, ext \in TranscodeExts,
          session \in TranscodeSessions :
           get_file(t, itemid, 1, ext, session, NoChunk)
    \/ \E t \in Threads, itemid \in Items, ext \in Exts \ TranscodeExts,
          session \in TranscodeSessions :
           get_file(t, itemid, 1, ext, session, NoChunk)
    \/ \E t \in Threads : old_shutdown(t)
    \/ \E t \in Threads : start_transcode(t)
    \/ \E t \in Threads : serve(t)
    \/ \E session \in TranscodeSessions : finished_callback(session)
    \/ shutdown_lock
    \/ shutdown_job
    \/ shutdown_unlock

SpecTranscodeLock == InitServer /\ [][NextTranscodeLock]_vars

\* Requests for files while the library changes: items are added to and
\* removed from the catalog between requests.
NextGetFile ==
    \/ \E added \in SUBSET Items : \E removed \in SUBSET (Items \ added) :
           handle_items_changed(None, added, {}, removed)
    \/ \E t \in Threads, itemid \in Items \cup {NumItems + 1},
          ext \in Exts, session \in TranscodeSessions :
           get_file(t, itemid, 1, ext, session, NoChunk)
    \/ \E t \in Threads : old_shutdown(t)
    \/ \E t \in Threads : start_transcode(t)
    \/ \E t \in Threads : serve(t)

SpecGetFile == InitServer /\ [][NextGetFile]_vars

\* The frontend toggles sharing, the preferences panel writes the other
\* keys, the backend thread and the UI thread run.
NextManager ==
    \/ \E value \in BOOLEAN : sharing_set_enable(value)
    \/ \E value \in BOOLEAN : config_set("SHARE_DISCOVERABLE", value)
    \/ \E value \in ShareNames : config_set("SHARE_NAME", value)
    \/ twiddle_sharing_begin
    \/ \E ok \in BOOLEAN : twiddle_sharing_end(ok)
    \/ sharing_set_complete_func

SpecManager == Init /\ [][NextManager]_vars

\* The same with twiddle_sharing() statement by statement and the server
\* thread of the SharingManager.
NextReconfigure ==
    \/ reconf.pc = "idle" /\ \E value \in BOOLEAN : sharing_set_enable(value)
    \/ /\ reconf.pc = "idle"
       /\ \E value \in BOOLEAN : config_set("SHARE_DISCOVERABLE", value)
    \/ /\ reconf.pc = "idle"
       /\ \E value \in ShareNames : config_set("SHARE_NAME", value)
    \/ twiddle_sharing_read
    \/ twiddle_sharing_toggle
    \/ \E ok \in BOOLEAN : enable_sharing(ok)
    \/ enable_sharing_return
    \/ disable_discover_send
    \/ disable_discover_return
    \/ disable_sharing_send
    \/ disable_sharing_return
    \/ twiddle_sharing_short_circuit
    \/ twiddle_sharing_pause
    \/ twiddle_sharing_discover
    \/ enable_discover_send
    \/ enable_discover_return
    \/ twiddle_sharing_complete
    \/ manager_thread_started
    \/ manager_thread_command
    \/ mdns_register_callback
    \/ sharing_set_complete_func

SpecReconfigure == Init /\ [][NextReconfigure]_vars

\* A statement of the twiddle_sharing() call in progress.
BackendStep ==
    \/ twiddle_sharing_read
    \/ twiddle_sharing_toggle
    \/ \E ok \in BOOLEAN : enable_sharing(ok)
    \/ enable_sharing_return
    \/ disable_discover_send
    \/ disable_discover_return
    \/ disable_sharing_send
    \/ disable_sharing_return
    \/ twiddle_sharing_short_circuit
    \/ twiddle_sharing_pause
    \/ twiddle_sharing_discover
    \/ enable_discover_send
    \/ enable_discover_return
    \/ twiddle_sharing_complete

\* The share keeps its name: the user toggles sharing and discovery only.
NextToggle ==
    \/ reconf.pc = "idle" /\ \E value \in BOOLEAN : sharing_set_enable(value)
    \/ /\ reconf.pc = "idle"
       /\ \E value \in BOOLEAN : config_set("SHARE_DISCOVERABLE", value)
    \/ BackendStep
    \/ manager_thread_started
    \/ manager_thread_command
    \/ mdns_register_callback
    \/ sharing_set_complete_func

\* The backend thread, the server thread and the UI thread run when they
\* can.
SpecToggleLive ==
    /\ Init /\ [][NextToggle]_vars
    /\ WF_vars(BackendStep)
    /\ WF_vars(manager_thread_started)
    /\ WF_vars(manager_thread_command)
    /\ WF_vars(sharing_set_complete_func)

\* The server with a library of items of any kinds: no playlist is shared,
\* every kind is shared at first.
InitItems ==
    /\ InitCatalog /\ InitPoll /\ InitTracker /\ InitClient /\ InitTranscode
    /\ InitManager /\ InitDiscovery
    /\ config = [k \in ShareKeys |-> TRUE]
    /\ db_files = {}
    /\ item_kinds \in [Items -> [mk : MediaKinds, ik : ItemKinds]]
    /\ items_returned = EmptyDict
    /\ InitConvert /\ InitRunloop

\* start_tracking() with no playlist, full item lists, changes of the kinds
\* shared, and the DAAP clients' get_items().
NextItems ==
    \/ populate_playlists({}, EmptyDict)
    \/ \E ids \in SUBSET Items : handle_item_list(None, ids)
    \/ \E key \in ShareKeys : \E value \in BOOLEAN :
           on_config_changed(key, value)
    \/ \E playlist_id \in Playlists \cup {None} : get_items_call(playlist_id)

SpecItems == InitItems /\ [][NextItems]_vars

\* Any item of a library, exported by the server and imported by a client.
InitRoundTrip ==
    /\ InitCatalog /\ InitPoll /\ InitTracker /\ InitClient /\ InitTranscode
    /\ InitManager /\ InitDiscovery /\ InitReader
    /\ config = [k \in ShareKeys |-> TRUE]
    /\ db_files = {}
    /\ local_item \in LocalItems
    /\ itemprop = None
    /\ item_data = None
    /\ convert_pc = "local"
    /\ InitRunloop

NextRoundTrip == export_item \/ import_item

SpecRoundTrip == InitRoundTrip /\ [][NextRoundTrip]_vars

\* A share is announced, tested and tracked; its connect fails; the
\* announcement is withdrawn at any time, and made only before the tracking.
NextConnectFail ==
    \/ thread_pc = "none" /\ mdns_callback_backend(TRUE, "A", ClientEndpoint)
    \/ mdns_callback_backend(FALSE, "A", ClientEndpoint)
    \/ \E t \in testconnects : try_to_add_success(t)
    \/ \E t \in testconnects : try_to_add_failure(t)
    \/ start_tracking(ClientShare)
    \/ make_client
    \/ \E supports_update \in BOOLEAN : client_connect(FALSE, supports_update)
    \/ idle_client_error_callback(FALSE)
    \/ idle_client_disconnect_callback
    \/ eject(ClientShare)

SpecConnectFail == InitClientSession /\ [][NextConnectFail]_vars

\* The tracker's thread issues its rounds, the eventloop runs the callbacks.
NextRunloop ==
    \/ run_func
    \/ \E succeeded \in BOOLEAN : func_returns(succeeded)
    \/ \E supports_update \in BOOLEAN : run_add_idle(supports_update)
    \/ eventloop_idle

SpecRunloop == InitClientSession /\ [][NextRunloop]_vars

\* The SharingManager resumes and pauses the browser thread, the application
\* stops it, the mDNS daemon reports, the thread runs.
NextDiscovery ==
    \/ resume
    \/ disable_discover
    \/ pause
    \/ pause_return
    \/ stop_tracking_thread
    \/ mdns_event
    \/ \E mdns_present \in BOOLEAN : server_thread_startup(mdns_present)
    \/ server_thread_select

SpecDiscovery == Init /\ [][NextDiscovery]_vars

\* The thread runs when it can and a set event wakes pause().
SpecDiscoveryLive ==
    /\ SpecDiscovery
    /\ WF_vars(\E mdns_present \in BOOLEAN :
                   server_thread_startup(mdns_present))
    /\ WF_vars(server_thread_select)
    /\ WF_vars(pause_return)


(***************************************************************************)
(* Properties of the revision counter and of get_revision.                 *)
(***************************************************************************)
\* A step of a watcher thread that has woken from select().
WatcherWakeup == \E s \in Sessions : watcher(s)

\* C1: the revision counter never decreases, and every step of an ingest
\* handler (handle_item_list, handle_items_changed, playlist or feed added,
\* changed, removed, populate_playlists) and every watcher wake-up increases
\* it by exactly 1.
C1_RevisionAdvances ==
    [][/\ revision' >= revision
       /\ (Ingest \/ WatcherWakeup) => revision' = revision + 1]_vars

\* C1 witness: both an ingest handler and a watcher have bumped the counter.
C1_Witness ==
    /\ data_rev >= 2
    /\ directed \in Sessions
    /\ revision > data_rev

\* C2, as claimed: a session that passed revision N is never left blocked in
\* wait() once a bump with directed = None has moved the revision past N.
C2_DataBumpNeverMasked ==
    \A s \in Sessions : pc[s] = "waiting" => data_rev <= arg_revision[s]

\* C3: a session woken when the only bump since it began to wait (revision N
\* to N+1) is a watcher wake-up directed at session d returns N+1 if it is d,
\* and otherwise does not return, rebinds old_revision to N+1 and waits again.
C3_DirectedWakeup ==
    [][\A s \in Sessions :
          (/\ pc[s] = "notified"
           /\ pc'[s] # "notified"
           /\ revision = old_revision[s] + 1
           /\ directed \in Sessions)
          => IF directed = s
             THEN /\ pc'[s] = "done"
                  /\ result'[s] = old_revision[s] + 1
             ELSE /\ pc'[s] = "waiting"
                  /\ old_revision'[s] = old_revision[s] + 1
                  /\ result'[s] = result[s]]_vars

\* C3 witness: after one bump directed at s1, s1 has returned that revision
\* and s2 waits again on it, its second watcher started.
C3_Witness ==
    \E s1, s2 \in Sessions :
        /\ s1 # s2
        /\ directed = s1
        /\ pc[s1] = "done" /\ result[s1] = revision
        /\ pc[s2] = "waiting"
        /\ arg_revision[s2] = revision - 1
        /\ old_revision[s2] = revision
        /\ watchers[s2] = 2

(***************************************************************************)
(* Properties of the catalog records.                                      *)
(***************************************************************************)
\* The record of k in d is new or differs from the one before the step.
Touched(d, dNew, k) == k \notin DOMAIN d \/ dNew[k] # d[k]

\* C4: no item or playlist record carries a revision greater than the global
\* revision, and every record a step creates, modifies or tombstones carries
\* the revision the step leaves, which for an ingest handler is greater than
\* the revision any reader observed before it.
C4_RecordsStamped ==
    [][/\ \A i \in DOMAIN daapitems' :
            /\ daapitems'[i].revision <= revision'
            /\ Touched(daapitems, daapitems', i) =>
                  /\ daapitems'[i].revision = revision'
                  /\ Ingest => daapitems'[i].revision > revision
       /\ \A p \in DOMAIN daap_playlists' :
            /\ daap_playlists'[p].revision <= revision'
            /\ Touched(daap_playlists, daap_playlists', p) =>
                  /\ daap_playlists'[p].revision = revision'
                  /\ Ingest => daap_playlists'[p].revision > revision]_vars

\* C4 witness: records created, tombstoned and left alone by ingest steps.
C4_Witness ==
    /\ \E i \in DOMAIN daapitems :
          daapitems[i].valid /\ daapitems[i].revision = revision
    /\ \E i \in DOMAIN daapitems :
          ~daapitems[i].valid /\ daapitems[i].revision < revision
    /\ \E p \in DOMAIN daap_playlists :
          daap_playlists[p].revision < revision
    /\ data_rev = revision

\* C5: a tombstone's revision is at least the revision of every earlier
\* valid record of the same item.
C5_TombstoneRevision ==
    \A i \in DOMAIN daapitems :
        ~daapitems[i].valid => daapitems[i].revision >= max_valid_rev[i]

\* C5 witness: an item that had a valid record at revision 3 or later is a
\* tombstone stamped after it.
C5_Witness ==
    \E i \in DOMAIN daapitems :
        /\ ~daapitems[i].valid
        /\ max_valid_rev[i] >= 3
        /\ daapitems[i].revision > max_valid_rev[i]

\* C6: a config change that alters the set of shared kinds leaves every item
\* record with a revision strictly greater than the one it had.
C6_ConfigRestamps ==
    [][Range(share_types') # Range(share_types) =>
          \A i \in DOMAIN daapitems :
              /\ i \in DOMAIN daapitems'
              /\ daapitems'[i].revision > daapitems[i].revision]_vars

\* C6 witness: the set of shared kinds has just changed with a valid item
\* and a tombstone in the catalog.
C6_Witness ==
    /\ types_rev = revision
    /\ \E i \in DOMAIN daapitems : daapitems[i].valid
    /\ \E i \in DOMAIN daapitems : ~daapitems[i].valid

(***************************************************************************)
(* Properties of Share's database paths and of SharingTracker.             *)
(***************************************************************************)
\* C7: any two live Shares (constructed and not destroyed: the values of
\* self.shares) have different database paths.
C7_DistinctDbPaths ==
    \A a \in DOMAIN shares : \A b \in DOMAIN shares :
        a # b => shares[a].db_path # shares[b].db_path

\* C7 witness: two Shares are live after a third was constructed and
\* destroyed.
C7_Witness ==
    /\ Cardinality(DOMAIN shares) = 2
    /\ Cardinality(used_db_paths) > 2

\* C8, as claimed: the in-use set holds exactly the database paths of the
\* live Shares, so that destroy() frees the slot of the Share.
C8_UsedSetIsLivePaths ==
    used_db_paths = {shares[k].db_path : k \in DOMAIN shares}

\* The share has a tracker, that is a client session.
Connected(share_id) ==
    /\ share_id \in DOMAIN shares
    /\ shares[share_id].tracker # None

\* No statement stores into self.trackers, so the grace timer of
\* mdns_callback_backend is never scheduled and remove_timeout_callback,
\* which only that timer calls, is not among the steps of NextTracker.
StaleCallbackNeverSet ==
    /\ trackers = EmptyDict
    /\ \A k \in DOMAIN available_shares :
           available_shares[k].stale_callback = None

\* C9, as claimed: a removed event for the last name of a connected share
\* leaves the share in place with its grace timer pending and sends no
\* SharingDisappeared.
C9_GraceTimer ==
    [][\A fullname \in FullNames \ {ServerName} : \A endpoint \in Endpoints :
          (/\ fullname \in DOMAIN name_to_id_map
           /\ name_to_id_map[fullname] \notin
                  Values(Del(name_to_id_map, fullname))
           /\ Connected(name_to_id_map[fullname])
           /\ mdns_callback_backend(FALSE, fullname, endpoint))
          => LET share_id == name_to_id_map[fullname] IN
             /\ share_id \in DOMAIN available_shares'
             /\ available_shares'[share_id].stale_callback # None
             /\ \A m \in Range(frontend') : m.msg # "SharingDisappeared"]_vars

\* C10: an added event for (host, port) of a mounted share, under any name,
\* leaves the Share objects and their ids as they are, sets the name of the
\* share's SharingInfo to the new name, sends exactly one message, a
\* TabsChanged with the share as changed, and starts no test connect.
C10_RenameConnected ==
    [][\A fullname \in FullNames \ {ServerName} : \A endpoint \in Endpoints :
          LET share_id == Abs(hash(endpoint)) IN
          (/\ share_id \in DOMAIN available_shares
           /\ available_shares[share_id].mount
           /\ available_shares[share_id].endpoint = endpoint
           /\ mdns_callback_backend(TRUE, fullname, endpoint))
          => /\ shares' = shares
             /\ shares'[share_id].id = share_id
             /\ DOMAIN available_shares' = DOMAIN available_shares
             /\ available_shares'[share_id].share_id = share_id
             /\ available_shares'[share_id].name = fullname
             /\ frontend' = <<TabsChanged(<<>>,
                                 <<available_shares'[share_id]>>, <<>>)>>
             /\ testconnects' = testconnects
             /\ next_uuid' = next_uuid
             /\ used_db_paths' = used_db_paths]_vars

\* C10 witness: a mounted share that was constructed under one name carries
\* another, both names map to it, and the last step sent the one TabsChanged.
C10_Witness ==
    \E share_id \in DOMAIN available_shares :
        /\ available_shares[share_id].mount
        /\ available_shares[share_id].name # shares[share_id].name
        /\ Cardinality({n \in DOMAIN name_to_id_map :
                           name_to_id_map[n] = share_id}) = 2
        /\ frontend = <<TabsChanged(<<>>, <<available_shares[share_id]>>,
                                    <<>>)>>

\* C11, as claimed: when a removed event removes a share that has no tracker,
\* SharingDisappeared is sent only if the share's test connect had succeeded
\* (share_available, set together with the TabsChanged that announced it);
\* a share whose test connect failed or is pending goes without any message.
C11_DisappearedOnlyIfAnnounced ==
    [][\A fullname \in FullNames \ {ServerName} : \A endpoint \in Endpoints :
          (/\ fullname \in DOMAIN name_to_id_map
           /\ name_to_id_map[fullname] \in DOMAIN available_shares
           /\ ~Connected(name_to_id_map[fullname])
           /\ mdns_callback_backend(FALSE, fullname, endpoint))
          => LET victim == available_shares[name_to_id_map[fullname]] IN
             /\ (\E m \in Range(frontend') : m.msg = "SharingDisappeared")
                    => victim.share_available
             /\ ~victim.share_available => frontend' = <<>>]_vars

\* The test connect t is stale: its share is gone or carries another uuid.
StaleTestConnect(t) ==
    \/ t.share_id \notin DOMAIN available_shares
    \/ available_shares[t.share_id].connect_uuid # t.uuid

\* C12: the success or failure callback of a stale test connect changes
\* nothing of the tracker and sends no message.
C12_StaleCompletionIgnored ==
    [][\A t \in testconnects :
          (/\ StaleTestConnect(t)
           /\ try_to_add_success(t) \/ try_to_add_failure(t))
          => /\ UNCHANGED <<name_to_id_map, shares, available_shares,
                            trackers, used_db_paths, db_files, next_uuid>>
             /\ frontend' = <<>>]_vars

\* C12 witness: a share was added, removed and added again, it waits for
\* the answer to its second test connect, and the first test connect has
\* called back.
C12_Witness ==
    \E share_id \in DOMAIN available_shares :
        /\ available_shares[share_id].connect_uuid = "u2"
        /\ shares[share_id].db_path = 1
        /\ used_db_paths = {0, 1}
        /\ testconnects = {[share_id |-> share_id, uuid |-> "u2"]}
        /\ ~available_shares[share_id].share_available
        /\ frontend = <<>>

(***************************************************************************)
(* Properties of SharingItemTrackerImpl.                                   *)
(***************************************************************************)
\* The eventloop runs a callback of the tracker's thread: the result or the
\* error callback of a connect or of an update.
ThreadCallback ==
    /\ idle_calls # <<>>
    /\ Head(idle_calls) \in {"client_connect_callback",
                             "client_update_callback",
                             "client_connect_error_callback",
                             "client_update_error_callback"}
    /\ idle_calls' # idle_calls

\* The eventloop runs client_connect_callback or client_update_callback.
Merge ==
    /\ idle_calls # <<>>
    /\ Head(idle_calls) \in {"client_connect_callback",
                             "client_update_callback"}
    /\ idle_calls' = Tail(idle_calls)

\* The tracker exists and client_disconnect() has not been called.
Live == thread_pc # "none" /\ ~disconnected

\* C13, as claimed: a callback of the tracker's thread that runs after
\* client_disconnect() leaves the SharingItems, the playlist membership and
\* the share's flags as they are and sends no message.
C13_LateCallbackDiscarded ==
    [][(disconnected /\ ThreadCallback) =>
          /\ UNCHANGED <<sharing_items, current_item_ids, playlist_data,
                         playlist_items, client_playlist_item_map,
                         fake_playlists, current_playlist_ids,
                         available_shares>>
          /\ frontend' = <<>>]_vars

\* C14, as claimed: while the tracker is connected, playlist_items of every
\* visible playlist is the membership the server has reported for it, the
\* additions minus the deletions since the snapshot.
C14_MembershipAsAsserted ==
    Live =>
        \A p \in current_playlists(playlist_data, playlist_items) :
            /\ p \in DOMAIN asserted
            /\ playlist_items[p] = asserted[p]

\* C15, as claimed: after every merge of a connected tracker that got
\* through update_playlists, the persisted u'podcast' is the union of the
\* memberships of the tracked playlists with the podcast flag and
\* u'playlist' the union over those without.
C15_FakePlaylists ==
    [][(Live /\ Merge /\ raised' = None) =>
          /\ fake_playlists'.podcast =
                 items_in_podcasts(playlist_data', playlist_items')
          /\ fake_playlists'.playlist =
                 items_in_playlists(playlist_data', playlist_items')]_vars

\* C16, as claimed: a merge of a connected tracker whose deleted_items names
\* an id without SharingItem raises nothing, removes every deleted id that
\* has a SharingItem and no other SharingItem.
C16_MissingDeletedItem ==
    [][(/\ Live /\ Merge
        /\ \E id \in Range(merged'.deleted_items) : id \notin sharing_items)
       => /\ raised' = None
          /\ sharing_items' \cap Range(merged'.deleted_items) = {}
          /\ sharing_items \ Range(merged'.deleted_items)
                 \subseteq sharing_items']_vars

\* C17, as claimed: after a merge of a connected tracker every id received
\* in items has a SharingItem, made if there was none, and the database
\* holds the ids received and not deleted afterwards.
C17_ItemsMirrored ==
    [][(Live /\ Merge /\ Range(merged'.deleted_items) = {}) =>
          /\ merged'.items \subseteq sharing_items'
          /\ sharing_items' = received']_vars

(***************************************************************************)
(* Properties of the transcode jobs of get_file.                            *)
(***************************************************************************)
\* The step of thread t is get_file(itemid, generation, ext, session, chunk)
\* with a transcode ext, for an item the catalog holds.
TranscodeRequest(t, itemid, generation, ext, session, chunk) ==
    /\ ext \in TranscodeExts
    /\ itemid \in DOMAIN daapitems
    /\ daapitems[itemid].valid
    /\ calls[t].pc = "idle"
    /\ get_file(t, itemid, generation, ext, session, chunk)

\* The jobs the transcode map holds.
MapJobs == {transcode[s] : s \in DOMAIN transcode}

\* C18, as claimed: once shutdown() has set in_shutdown, a get_file call
\* with ext ts or m3u8 returns (None, None) and no job is made; every job of
\* the transcode map has been shut down, and no job is started any more,
\* whatever the get_file calls in progress do.
C18_ShutdownStopsJobs ==
    [][in_shutdown =>
          /\ \A t \in Threads, itemid \in Items, generation \in Generations,
                ext \in TranscodeExts, session \in TranscodeSessions,
                chunk \in Chunks \cup {NoChunk} :
                 TranscodeRequest(t, itemid, generation, ext, session, chunk)
                 => calls'[t] = [IdleCall EXCEPT !.ret = no_file]
          /\ Len(jobs') = Len(jobs)
          /\ \A j \in MapJobs : jobs[j].shut
          /\ \A j \in DOMAIN jobs : jobs'[j].started => jobs[j].started]_vars

C20_ReplacedExactlyWhen ==
    [][\A t \in Threads, itemid \in Items, generation \in Generations,
          ext \in TranscodeExts, session \in TranscodeSessions,
          chunk \in Chunks \cup {NoChunk} :
           ( /\ ~in_shutdown
             /\ session \in DOMAIN transcode
             /\ ~ ( /\ jobs[transcode[session]].itemid = itemid
                    /\ generation < jobs[transcode[session]].generation )
             /\ TranscodeRequest(t, itemid, generation, ext, session,
                                 chunk) )
           => LET job == jobs[transcode[session]]
              IN  /\ (transcode'[session] # transcode[session])
                     <=> \/ job.itemid # itemid
                         \/ generation > job.generation
                         \/ chunk # NoChunk /\ isseek(job, chunk)
                  /\ calls'[t].transcode_obj = transcode'[session]]_vars

TogglePending ==
    \/ \E i \in DOMAIN changed_queue : changed_queue[i] = "SHARE_MEDIA"
    \/ twiddle.pc = "running" /\ twiddle.key = "SHARE_MEDIA"

\* C22, as claimed: while an accepted toggle's reconfigure has not completed,
\* every sharing_set_enable call returns False, runs no start callback and
\* writes no config.
C22_ToggleSerialized ==
    [][\A value \in BOOLEAN :
          (TogglePending /\ sharing_set_enable(value))
          => /\ sharing_set_enable_ret' = "False"
             /\ UNCHANGED <<sharing_frontend_volatile, share_media,
                            changed_queue, toggle_widget>>]_vars

(***************************************************************************)
(* Properties of the mDNS browser thread.                                  *)
(***************************************************************************)
\* The browser thread dispatches the browse callback.
Dispatch == browse_ready /\ ~browse_ready'

\* C23: pause() returns only after the thread has read its PAUSE, which
\* sets paused; paused stays set until the thread reads a RESUME; while it
\* is set the thread does not select on the browse socket and dispatches no
\* browse callback; and a pause() that waits returns, unless the thread is
\* told to quit.
C23_PauseQuiesces ==
    /\ [][/\ (pause_pc = "wait" /\ pause_pc' = "idle") => pause_processed
          /\ (~pause_processed /\ pause_processed') => paused'
          /\ (paused /\ ~paused')
                 => cmd_pipe # <<>> /\ Head(cmd_pipe) = CMD_RESUME
          /\ paused => ~refs /\ ~Dispatch]_vars
    /\ (pause_pc = "wait") ~> (pause_pc = "idle" \/ quit_sent)

\* pause() has returned, no RESUME has arrived since, the browse socket is
\* readable and the running thread, which browses, leaves it alone.
C23_Witness ==
    /\ pause_pc = "idle"
    /\ pause_processed
    /\ paused
    /\ server_thread_pc = "browse"
    /\ callback # None
    /\ browse_ready
    /\ cmd_pipe = <<>>
    /\ ~ENABLED server_thread_select

(***************************************************************************)
(* Properties of the item lists and of get_items.                          *)
(***************************************************************************)
\* C24: handle_item_list with message.id = None leaves exactly the ids of
\* the message with a valid record and every id known before and absent
\* from the message with a tombstone; with a playlist id it makes the
\* playlist's membership the ids of the message, and every one of them the
\* catalog holds carries the new revision.
C24_ItemListReplaces ==
    [][\A id \in Playlists \cup {None} : \A ids \in SUBSET Items :
          handle_item_list(id, ids) =>
             IF id = None
             THEN /\ {i \in DOMAIN daapitems' : daapitems'[i].valid} = ids
                  /\ \A i \in DOMAIN daapitems \ ids :
                         /\ i \in DOMAIN daapitems'
                         /\ ~daapitems'[i].valid
             ELSE /\ Range(playlist_item_map'[id]) = ids
                  /\ Len(playlist_item_map'[id]) = Cardinality(ids)
                  /\ \A i \in ids \cap DOMAIN daapitems' :
                         daapitems'[i].revision = revision']_vars

\* A full item list has just replaced the library: an item it names is valid
\* and an item it does not name, valid before, is a tombstone, both stamped
\* with the revision of this data bump.
C24_Witness ==
    /\ data_rev = revision
    /\ \E i \in DOMAIN daapitems :
           daapitems[i].valid /\ daapitems[i].revision = revision
    /\ \E i \in DOMAIN daapitems :
           /\ ~daapitems[i].valid
           /\ daapitems[i].revision = revision
           /\ max_valid_rev[i] > 0

\* C25: get_items() with no playlist returns an entry for every id of the
\* catalog; an entry it returns valid is a valid record whose mediakind is
\* shared and which is no podcast item unless feeds are shared; every other
\* valid record is returned as a tombstone made now.
C25_GetItemsFilters ==
    [][get_items_call(None) =>
          /\ DOMAIN items_returned' = DOMAIN daapitems
          /\ \A k \in DOMAIN daapitems :
                LET allowed ==
                        /\ daapitems[k].valid
                        /\ item_kinds[k].mk \in Range(share_types)
                        /\ \/ item_kinds[k].ik # MIRO_ITEMKIND_PODCAST
                           \/ SHARE_FEED \in Range(share_types)
                IN  /\ items_returned'[k].valid => allowed
                    /\ (daapitems[k].valid /\ ~allowed)
                           => items_returned'[k] = deleted_item(revision)]_vars

\* get_items() has returned a podcast item, valid in the catalog, as a
\* tombstone because feeds are not shared, next to a valid record.
C25_Witness ==
    /\ DOMAIN items_returned = DOMAIN daapitems
    /\ SHARE_FEED \notin Range(share_types)
    /\ \E k \in DOMAIN daapitems :
           /\ daapitems[k].valid
           /\ item_kinds[k].ik = MIRO_ITEMKIND_PODCAST
           /\ item_kinds[k].mk \in Range(share_types)
           /\ items_returned[k] = deleted_item(revision)
    /\ \E k \in DOMAIN daapitems :
           daapitems[k].valid /\ items_returned[k] = daapitems[k]

\* C26: an item exported with make_item_dict and imported with
\* convert_raw_sharing_item has the attributes of the DAAP mapping it had:
\* the duration d is d * 1000 in the record and d again after the import,
\* the kind is the name of its bit of the itemkind mask.
C26_RoundTrip ==
    /\ convert_pc # "local" /\ local_item.duration > 0
           => itemprop.songtime = local_item.duration * DURATION_SCALE
    /\ convert_pc = "imported" =>
           /\ item_data.title = local_item.name
           /\ item_data.duration = local_item.duration
           /\ item_data.year = local_item.year
           /\ item_data.kind = local_item.kind
           /\ item_data.file_type = local_item.file_type
           /\ item_data.file_format = local_item.file_format

\* C26, the attributes one at a time.
C26_DurationRecovered ==
    (convert_pc = "imported" /\ local_item.duration > 0)
        => item_data.duration = local_item.duration
C26_KindRecovered ==
    (convert_pc = "imported" /\ ~local_item.from_podcast)
        => item_data.kind = local_item.kind
C26_TitleRecovered ==
    convert_pc = "imported" => item_data.title = local_item.name

\* C27: the share becomes mounted only in client_connect_callback, which has
\* merged the snapshot by then: nothing was raised, every item of the
\* snapshot has its SharingItem, every visible playlist has the membership
\* the snapshot gave it, and the message that shows the share mounted is
\* the last one of the callback.
C27_SnapshotBeforeMount ==
    [][(/\ ClientShare \in DOMAIN available_shares
        /\ ClientShare \in DOMAIN available_shares'
        /\ ~available_shares[ClientShare].mount
        /\ available_shares'[ClientShare].mount)
       => /\ idle_calls # <<>>
          /\ Head(idle_calls) = "client_connect_callback"
          /\ raised' = None
          /\ merged'.items \subseteq sharing_items'
          /\ merged'.items \subseteq current_item_ids'
          /\ \A p \in current_playlists(playlist_data', playlist_items') :
                 /\ p \in DOMAIN asserted'
                 /\ playlist_items'[p] = asserted'[p]
          /\ frontend' # <<>>
          /\ frontend'[Len(frontend')] =
                 TabsChanged(<<>>, <<available_shares'[ClientShare]>>,
                             <<>>)]_vars

\* The share is mounted, and the snapshot that was merged had items and a
\* playlist with members.
C27_Witness ==
    /\ ClientShare \in DOMAIN available_shares
    /\ available_shares[ClientShare].mount
    /\ ~disconnected
    /\ merged.items # {}
    /\ merged.items \subseteq sharing_items
    /\ \E p \in current_playlists(playlist_data, playlist_items) :
           playlist_items[p] # {}

\* C28: the callbacks of the rounds run in the order in which the thread
\* completed the rounds, one callback for each round from the first on; the
\* callback of round k has been handed to the eventloop when round k + 1 is
\* issued, so the callback of the connect runs before that of any update
\* and that of update k before that of update k + 1.
C28_CallbacksInRoundOrder ==
    /\ \A i \in DOMAIN callbacks_run : callbacks_run[i].round = i
    /\ \A i \in DOMAIN idle_queue :
           idle_queue[i].round = Len(callbacks_run) + i
    /\ runloop_pc \in {"runloop", "return"}
           => Len(callbacks_run) + Len(idle_queue) = rpc_round
    /\ runloop_pc \in {"func", "succeeded", "failed"}
           => Len(callbacks_run) + Len(idle_queue) = rpc_round - 1
    /\ \A i \in DOMAIN callbacks_run :
           callbacks_run[i].func \in {"client_update_callback",
                                      "client_update_error_callback"}
           => /\ i > 1
              /\ callbacks_run[1].func = "client_connect_callback"

\* The callbacks of the connect and of two updates have run, and a third
\* update is in progress while the callback of the second waits.
C28_Witness ==
    /\ Len(callbacks_run) = 2
    /\ callbacks_run[2].func = "client_update_callback"
    /\ idle_queue # <<>>
    /\ runloop_pc = "func"
    /\ rpc_round = 4

\* C29, as claimed: when the eventloop runs client_connect_error_callback
\* and no disconnect has been asked for, the client is dropped and the
\* SharingItems are deleted, the share is left without tracker, unmounted and
\* not updating, client.disconnect is handed to a thread, and the messages
\* are the TabsChanged of update_finished(success=False), the TabsChanged
\* of stop_tracking and SharingConnectFailed.
C29_ConnectFailure ==
    [][(/\ ~disconnected
        /\ idle_calls # <<>>
        /\ Head(idle_calls) = "client_connect_error_callback"
        /\ idle_client_error_callback(FALSE))
       => /\ client' = None
          /\ disconnected'
          /\ sharing_items' = {}
          /\ shares'[ClientShare].tracker = None
          /\ ~available_shares'[ClientShare].mount
          /\ ~available_shares'[ClientShare].is_updating
          /\ idle_calls' = <<"client_disconnect_callback">>
          /\ frontend' =
                 <<TabsChanged(<<>>, <<available_shares'[ClientShare]>>,
                               <<>>),
                   TabsChanged(<<>>, <<available_shares'[ClientShare]>>,
                               <<>>),
                   SharingConnectFailed(ClientShare)>>]_vars

\* C30: a removed event for a name whose share id is bound to another name
\* as well takes the name out of name_to_id_map and does nothing else: the
\* shares, their SharingInfos with their timers, the database files and the
\* test connects are as before and no message is sent.
C30_RemovedWhileBound ==
    [][\A fullname \in FullNames \ {ServerName} : \A endpoint \in Endpoints :
          (/\ fullname \in DOMAIN name_to_id_map
           /\ \E other \in DOMAIN name_to_id_map \ {fullname} :
                  name_to_id_map[other] = name_to_id_map[fullname]
           /\ mdns_callback_backend(FALSE, fullname, endpoint))
          => /\ name_to_id_map' = Del(name_to_id_map, fullname)
             /\ UNCHANGED <<shares, available_shares, trackers,
                            used_db_paths, db_files, testconnects,
                            next_uuid>>
             /\ frontend' = <<>>]_vars

\* The name a share was announced under last has been withdrawn while an
\* older name of the share is still bound: the share is there, unnamed in
\* name_to_id_map by its own name, and the event sent nothing.
C30_Witness ==
    \E share_id \in DOMAIN available_shares :
        /\ share_id \in DOMAIN shares
        /\ available_shares[share_id].name \notin DOMAIN name_to_id_map
        /\ share_id \in Values(name_to_id_map)
        /\ frontend = <<>>

\* A job that was started and not shut down.
Running(j) == jobs[j].started /\ ~jobs[j].shut

\* C31, as claimed: a running job is the job of a session in the transcode
\* map, or it has just been replaced there by a get_file call that is about
\* to shut it down.
C31_NoOrphanJob ==
    \A j \in DOMAIN jobs :
        Running(j) =>
            \/ j \in MapJobs
            \/ \E t \in Threads : /\ calls[t].pc = "old_shutdown"
                                  /\ calls[t].old_transcode_obj = j

\* C31 on the transcode requests alone: a step that takes a running job out
\* of the map by an item mismatch or a seek hands it to old_shutdown.
C31_ReplacedIsShutDown ==
    [][\A j \in DOMAIN jobs :
          (/\ Running(j)
           /\ j \in MapJobs
           /\ j \notin {transcode'[s] : s \in DOMAIN transcode'}
           /\ DOMAIN transcode' = DOMAIN transcode)
          => \E t \in Threads : /\ calls'[t].pc = "old_shutdown"
                                /\ calls'[t].old_transcode_obj = j]_vars

\* C32, as claimed: while a thread holds transcode_lock no other thread
\* touches the transcode map, so the map does not change under
\* shutdown()'s loop and the loop finds every key it listed.
C32_MapUnderLock ==
    /\ [][transcode_lock # free => transcode' = transcode]_vars
    /\ [](shutdown_raised = None)

\* C37, as claimed: a get_file for an id that is not in the catalog, or that
\* names a tombstone, returns (None, None) and raises nothing, whatever the
\* ext.
C37_UnknownIdReturnsNoFile ==
    [][\A t \in Threads, itemid \in Items \cup {NumItems + 1} :
          (/\ calls[t].pc = "idle"
           /\ \/ itemid \notin DOMAIN daapitems
              \/ ~daapitems[itemid].valid
           /\ \E ext \in Exts, session \in TranscodeSessions :
                  get_file(t, itemid, 1, ext, session, NoChunk))
          => calls'[t].ret = no_file]_vars

\* C37 for the ids that are not in the catalog at all: the lookup's
\* KeyError is caught and (None, None) is returned.
C37_AbsentIdReturnsNoFile ==
    [][\A t \in Threads, itemid \in Items \cup {NumItems + 1} :
          (/\ calls[t].pc = "idle"
           /\ itemid \notin DOMAIN daapitems
           /\ \E ext \in Exts, session \in TranscodeSessions :
                  get_file(t, itemid, 1, ext, session, NoChunk))
          => calls'[t].ret = no_file]_vars

\* C36, as claimed: the mount flag of a share's SharingInfo is true only
\* while its Share has a tracker, also when a continuation that the client
\* thread queued before stop_tracking() runs after it.
C36_MountOnlyWhileTracked ==
    \A s \in DOMAIN available_shares :
        available_shares[s].mount =>
            /\ s \in DOMAIN shares
            /\ shares[s].tracker # None

\* C36 at stop_tracking() itself: the step that takes the tracker from the
\* Share leaves the flag false.
C36_StopTrackingClearsMount ==
    [][\A s \in DOMAIN shares :
          (/\ shares[s].tracker # None
           /\ s \in DOMAIN shares'
           /\ shares'[s].tracker = None
           /\ s \in DOMAIN available_shares')
          => ~available_shares'[s].mount]_vars

\* C38, as claimed: while the tracker is connected, whatever was merged, the
\* playlists in the frontend's sidebar are current_playlist_ids, and these
\* are the playlists that are visible now.
C38_SidebarIsCurrent ==
    Live =>
        /\ playlist_tabs = current_playlist_ids
        /\ current_playlist_ids =
               current_playlists(playlist_data, playlist_items)

\* C38 for the frontend alone: the sidebar and current_playlist_ids agree
\* while the tracker is connected.
C38_SidebarIsAnnounced == Live => playlist_tabs = current_playlist_ids

\* C38, the continuation after the disconnect: client_disconnect_callback
\* announces the playlists of the sidebar as removed, all of them and no
\* other.
C38_DisconnectRemovesSidebar ==
    [][idle_client_disconnect_callback =>
          /\ Range(frontend'[1].removed) = playlist_tabs
          /\ playlist_tabs' = {}]_vars

\* C40, as claimed: after every mDNS event every share id bound in
\* name_to_id_map is a key of available_shares and of shares, and the two
\* have the same keys.
C40_BoundIdsAreKnown ==
    /\ \A fullname \in DOMAIN name_to_id_map :
           /\ name_to_id_map[fullname] \in DOMAIN available_shares
           /\ name_to_id_map[fullname] \in DOMAIN shares
    /\ DOMAIN available_shares = DOMAIN shares

\* C40, the consequence: a removed event for a name that is bound finds the
\* share in available_shares.
C40_RemovedFindsShare ==
    [][\A fullname \in DOMAIN name_to_id_map :
          (/\ fullname # ServerName
           /\ \E endpoint \in Endpoints :
                  mdns_callback_backend(FALSE, fullname, endpoint)
           /\ ~still_bound(name_to_id_map', name_to_id_map[fullname]))
          => name_to_id_map[fullname] \in DOMAIN available_shares]_vars

\* mdns_register_callback, which calls resume(), is still to come: the
\* service is being registered and the server thread serves its refs.
ResumePending ==
    /\ manager_thread = "select"
    /\ discoverable
    /\ mdns_callback.state = "pending"

\* C34, as claimed: once a reconfigure has finished the tracker is not left
\* paused, whatever the configured discoverable value is: it has been
\* resumed, or the registration that resumes it is under way.
C34_NotLeftPaused ==
    (reconf.pc = "idle" /\ tracker_paused) => ResumePending

\* C34, the order of a name change: the tracker is paused only by a
\* reconfigure that has found the name changed, after disable_discover()
\* has withdrawn the registration and before enable_discover(), and the
\* server is given the new name at that point.
C34_NameChangeOrder ==
    [][(tracker_paused' /\ ~tracker_paused) =>
          /\ reconf.name_changed
          /\ ~discoverable
          /\ mdns_callback = no_mdns_callback
          /\ server_name' = reconf.name
          /\ reconf'.pc = "discover"]_vars

\* The backend thread is inside one of the calls that wait for the reload.
InReloadCall ==
    reconf.pc \in {"enable_sharing_wait", "disable_discover_wait",
                   "disable_sharing_wait", "enable_discover_wait"}

\* The server thread answers each command with one reload-done signal (the
\* event is clear before and set after, and no other step but the start of
\* the thread sets it), and outside the calls the event is clear and no
\* command is outstanding.
Acknowledged ==
    /\ [][Len(manager_pipe') < Len(manager_pipe) =>
             /\ Len(manager_pipe) = 1
             /\ ~reload_done_event
             /\ reload_done_event']_vars
    /\ [][(reload_done_event' /\ ~reload_done_event) =>
             \/ Len(manager_pipe') < Len(manager_pipe)
             \/ manager_thread = "started"]_vars
    /\ [](~InReloadCall => (~reload_done_event /\ manager_pipe = <<>>))

\* The calls return: a call that waits for the reload goes on, and after
\* disable_sharing() has sent QUIT the server thread is gone when the call
\* returns.
CallsReturn ==
    /\ InReloadCall ~> ~InReloadCall
    /\ (reconf.pc = "disable_sharing_wait") ~>
           (manager_thread = "none" /\ reconf.pc = "short_circuit")

\* C35, as claimed: disable_sharing() sends QUIT, the server thread exits
\* and signals reload-done, and disable_sharing() returns; each command of
\* enable_discover(), disable_discover() and disable_sharing() is
\* acknowledged by exactly one reload-done signal, and the event is clear
\* again when the call returns.
C35_OneSignalPerCommand == Acknowledged /\ CallsReturn

\* C35: disable_sharing() has sent QUIT, the server thread has read it, has
\* exited and has signalled, and the call is about to return.
C35_Witness ==
    /\ reconf.pc = "disable_sharing_wait"
    /\ manager_thread = "none"
    /\ manager_pipe = <<>>
    /\ reload_done_event

RequestedWhileConnecting ==
    /\ thread_pc = "connect"
    /\ raised = "AttributeError"

\* C39, as claimed: after client_disconnect() has been requested, in
\* whatever state of the tracker, its thread leaves the update loop and
\* terminates.
C39_ThreadTerminates ==
    (disconnected \/ RequestedWhileConnecting) ~> (thread_pc = "exit")

\* C39, with a client to disconnect: once client_disconnect() has stored
\* None the thread hands over no further update result.
C39_NoRoundAfterDisconnect ==
    [][disconnected =>
          idle_calls' # Append(idle_calls, "client_update_callback")]_vars

====
